---- MODULE Spec2Model ----
(***************************************************************************)
(* Model of the valuation decision of AVALUADOR: the /avaluo handler of    *)
(* api_server.py and the price integration of vision_integration.py.       *)
(*                                                                         *)
(* Texts are sequences of one-character strings.  Numbers that Python      *)
(* holds as floats are exact rationals [t, n, d] (t = "fin"), extended     *)
(* with the IEEE values inf and nan (numpy arithmetic produces them) and   *)
(* with None.                                                              *)
(***************************************************************************)
EXTENDS Integers, Sequences, FiniteSets, TLC

VARIABLES
    pc,          \* position of the /avaluo handler
    solicitud,   \* form fields of the request
    resultado,   \* what predecir_precio_con_imagenes returned (or raised)
    respuesta,   \* the JSON response of the handler
    fn,          \* pure-function harness: the function applied
    arg,         \* pure-function harness: its argument
    ret,         \* pure-function harness: its result
    archivos,    \* concurrent requests: the temporary directories on disk
    tmpdir,      \* concurrent requests: the temporary directory of each request
    previas      \* concurrent requests: the requests answered before each one arrived

vars == <<pc, solicitud, resultado, respuesta, fn, arg, ret, archivos, tmpdir, previas>>

\* the variables of the concurrent requests, where one request is modelled
SinConcurrencia == archivos = <<>> /\ tmpdir = <<>> /\ previas = <<>>

(***************************************************************************)
(* Numbers                                                                 *)
(***************************************************************************)
Abs(x) == IF x < 0 THEN -x ELSE x

RECURSIVE GCD(_, _)
GCD(a, b) == IF b = 0 THEN a ELSE GCD(b, a % b)

\* the rational n/d (d > 0) in lowest terms
Fin(n, d) ==
    LET g == GCD(Abs(n), d)
    IN  [t |-> "fin", n |-> n \div g, d |-> d \div g]

Ent(n) == [t |-> "fin", n |-> n, d |-> 1]
Inf(s) == [t |-> "inf", n |-> s, d |-> 0]
NaN    == [t |-> "nan", n |-> 0, d |-> 0]
None   == [t |-> "none", n |-> 0, d |-> 0]
\* the outcome of an expression that raised (caught by the caller's try)
Raised == [t |-> "raise", n |-> 0, d |-> 0]

IsFin(a) == a.t = "fin"
Sign(a) == IF a.n > 0 THEN 1 ELSE IF a.n < 0 THEN -1 ELSE 0

\* a * b on floats
Mul(a, b) ==
    IF a.t = "nan" \/ b.t = "nan" THEN NaN
    ELSE IF a.t = "inf" \/ b.t = "inf"
         THEN IF Sign(a) * Sign(b) = 0 THEN NaN ELSE Inf(Sign(a) * Sign(b))
    ELSE LET g1 == GCD(Abs(a.n), b.d)
             g2 == GCD(Abs(b.n), a.d)
         IN  Fin((a.n \div g1) * (b.n \div g2), (a.d \div g2) * (b.d \div g1))

\* a / b for finite a, b.  A Python float divisor 0 raises ZeroDivisionError;
\* a numpy float64 divisor 0 yields inf or nan (with a warning only).
Div(a, b, numpy) ==
    IF b.n = 0
    THEN IF ~numpy THEN Raised
         ELSE IF a.n = 0 THEN NaN ELSE Inf(Sign(a))
    ELSE LET s == IF b.n < 0 THEN -1 ELSE 1
         IN  Mul(a, Fin(s * b.d, Abs(b.n)))

\* a < b on floats: every comparison with nan is false
Lt(a, b) ==
    IF a.t = "nan" \/ b.t = "nan" THEN FALSE
    ELSE IF a.t = "inf" THEN a.n < 0 /\ ~(b.t = "inf" /\ b.n < 0)
    ELSE IF b.t = "inf" THEN b.n > 0
    ELSE a.n * b.d < b.n * a.d

Gt(a, b) == Lt(b, a)

\* Python's max(a, b): the first argument unless the second is greater
Max2(a, b) == IF Gt(b, a) THEN b ELSE a

\* int(round(x)) for a finite float: round half to even
RoundHalfEven(a) ==
    LET q == a.n \div a.d
        r == a.n % a.d
    IN  IF 2 * r < a.d THEN q
        ELSE IF 2 * r > a.d THEN q + 1
        ELSE IF q % 2 = 0 THEN q ELSE q + 1

(***************************************************************************)
(* Texts                                                                   *)
(***************************************************************************)
UpperChars == <<"A", "B", "C", "D", "E", "F", "G", "H", "I", "J", "K", "L", "M", "N", "O", "P", "Q", "R", "S", "T", "U", "V", "W", "X", "Y", "Z">>
LowerChars == <<"a", "b", "c", "d", "e", "f", "g", "h", "i", "j", "k", "l", "m", "n", "o", "p", "q", "r", "s", "t", "u", "v", "w", "x", "y", "z">>
DigitChars == <<"0", "1", "2", "3", "4", "5", "6", "7", "8", "9">>

UpperSet == {UpperChars[i] : i \in 1..Len(UpperChars)}
LowerSet == {LowerChars[i] : i \in 1..Len(LowerChars)}
DigitSet == {DigitChars[i] : i \in 1..Len(DigitChars)}

\* the lower-case letter of each upper-case letter
LowerOf == [c \in UpperSet |-> LowerChars[CHOOSE i \in 1..Len(UpperChars) : UpperChars[i] = c]]
\* the value of each digit
ValueOf == [c \in DigitSet |-> (CHOOSE i \in 1..Len(DigitChars) : DigitChars[i] = c) - 1]

IsDigit(c) == c \in DigitSet
IsSpace(c) == c = " "
DigitVal(c) == ValueOf[c]

LowerChar(c) == IF c \in UpperSet THEN LowerOf[c] ELSE c

\* str.lower()
RECURSIVE Lower(_)
Lower(s) ==
    IF Len(s) = 0 THEN <<>> ELSE <<LowerChar(Head(s))>> \o Lower(Tail(s))

\* k occurs in s at position p
HasAt(s, p, k) ==
    /\ p >= 1
    /\ p + Len(k) - 1 <= Len(s)
    /\ \A j \in 1..Len(k) : s[p + j - 1] = k[j]

\* k in s
Contains(s, k) == \E p \in 1..(Len(s) + 1) : HasAt(s, p, k)

\* first position at or after i whose character is not a space (\s*)
RECURSIVE SkipSpaces(_, _)
SkipSpaces(s, i) ==
    IF i <= Len(s) /\ IsSpace(s[i]) THEN SkipSpaces(s, i + 1) ELSE i

\* first position at or after i whose character is a digit (\D*)
RECURSIVE SkipNonDigits(_, _)
SkipNonDigits(s, i) ==
    IF i <= Len(s) /\ ~IsDigit(s[i]) THEN SkipNonDigits(s, i + 1) ELSE i

\* " ".join(lines)
RECURSIVE Join(_)
Join(lines) ==
    IF Len(lines) = 0 THEN <<>>
    ELSE IF Len(lines) = 1 THEN lines[1]
    ELSE lines[1] \o <<" ">> \o Join(Tail(lines))

(***************************************************************************)
(* api_server.py: processor generation and the two policy gates            *)
(***************************************************************************)

GEN_DEFAULT == 10
MIN_GEN_I3 == 10

IsOdd3579(c) == c \in {"3", "5", "7", "9"}

\* core\s*i[3579]\D*(1[1-5]) matched with "core" at p: the group, or 0
CoreGenAt(s, p) ==
    IF ~HasAt(s, p, <<"c", "o", "r", "e">>) THEN 0
    ELSE LET q == SkipSpaces(s, p + 4)
         IN  IF ~(q + 1 <= Len(s) /\ s[q] = "i" /\ IsOdd3579(s[q + 1])) THEN 0
             ELSE LET r == SkipNonDigits(s, q + 2)
                  IN  IF r + 1 <= Len(s) /\ s[r] = "1" /\ s[r + 1] \in {"1", "2", "3", "4", "5"}
                      THEN 10 + DigitVal(s[r + 1])
                      ELSE 0

\* ([3-9])\D*5[0-9]{2,3} matched with the group at g: the group, or 0
RyzenTailAt(s, g) ==
    IF ~(g <= Len(s) /\ s[g] \in {"3", "4", "5", "6", "7", "8", "9"}) THEN 0
    ELSE LET f == SkipNonDigits(s, g + 1)
         IN  IF f + 2 <= Len(s) /\ s[f] = "5" /\ IsDigit(s[f + 1]) /\ IsDigit(s[f + 2])
             THEN DigitVal(s[g])
             ELSE 0

\* ryzen\s*[3579]?\D*([3-9])\D*5[0-9]{2,3} matched with "ryzen" at p: the
\* group, or 0.  The optional class is tried first (greedy), then skipped.
RyzenGenAt(s, p) ==
    IF ~HasAt(s, p, <<"r", "y", "z", "e", "n">>) THEN 0
    ELSE LET q == SkipSpaces(s, p + 5)
             conOpcional ==
                 IF q <= Len(s) /\ IsOdd3579(s[q])
                 THEN RyzenTailAt(s, SkipNonDigits(s, q + 1))
                 ELSE 0
             sinOpcional == RyzenTailAt(s, SkipNonDigits(s, p + 5))
         IN  IF conOpcional # 0 THEN conOpcional ELSE sinOpcional

\* re.search: the match at the leftmost position that has one
FirstCoreGen(s) ==
    LET ps == {p \in 1..Len(s) : CoreGenAt(s, p) # 0}
    IN  IF ps = {} THEN 0
        ELSE CoreGenAt(s, CHOOSE p \in ps : \A o \in ps : p <= o)

\* the group of the leftmost match of the Ryzen pattern, 0 without a match
FirstRyzenGen(s) ==
    LET ps == {p \in 1..Len(s) : RyzenGenAt(s, p) # 0}
    IN  IF ps = {} THEN 0
        ELSE RyzenGenAt(s, CHOOSE p \in ps : \A o \in ps : p <= o)

infer_generation(name) ==
    IF Len(name) = 0 THEN GEN_DEFAULT
    ELSE LET s == Lower(name)
             c == FirstCoreGen(s)
             r == FirstRyzenGen(s)
         IN  IF c # 0 THEN c
             ELSE IF r # 0 THEN r
             ELSE GEN_DEFAULT

MOTIVO_CPU_EXCLUIDO == "Procesador excluido por politica (Pentium/Celeron/Atom). Minimo Core i3 10a gen en adelante."
MOTIVO_I3_SIN_GEN == "Core i3 sin generacion acreditada. Requisito minimo: i3 10a gen en adelante."
MOTIVO_I3_ANTERIOR == "Core i3 anterior a 10a gen no aceptado. Requisito minimo: i3 10a gen en adelante."
MOTIVO_DISCO == "Disco HDD no permitido por politica. Se requiere almacenamiento SSD."

Veredicto(b, m) == [bloqueado |-> b, motivo |-> m]

\* gen = None of the except branch around infer_generation
GenNone == -1

\* cpu_excluido_politica matching the text as written, without lower()
cpu_excluido_politica_sin_lower(name) ==
    IF Contains(name, <<"p", "e", "n", "t", "i", "u", "m">> (* "pentium" *)) \/ Contains(name, <<"c", "e", "l", "e", "r", "o", "n">> (* "celeron" *)) \/ Contains(name, <<"a", "t", "o", "m">> (* "atom" *))
    THEN Veredicto(TRUE, MOTIVO_CPU_EXCLUIDO)
    ELSE Veredicto(FALSE, "")

cpu_excluido_politica(name) ==
    LET s == Lower(name)
        \* try: gen = infer_generation(name); it has no raising path
        gen == infer_generation(name)
    IN  IF Len(s) = 0 THEN Veredicto(FALSE, "")
        ELSE IF Contains(s, <<"p", "e", "n", "t", "i", "u", "m">> (* "pentium" *)) \/ Contains(s, <<"c", "e", "l", "e", "r", "o", "n">> (* "celeron" *)) \/ Contains(s, <<"a", "t", "o", "m">> (* "atom" *))
        THEN Veredicto(TRUE, MOTIVO_CPU_EXCLUIDO)
        ELSE IF Contains(s, <<"c", "o", "r", "e", " ", "i", "3">> (* "core i3" *)) \/ Contains(s, <<" ", "i", "3">>) \/ HasAt(s, 1, <<"i", "3">>)
        THEN IF gen = GenNone THEN Veredicto(TRUE, MOTIVO_I3_SIN_GEN)
             ELSE IF gen < MIN_GEN_I3 THEN Veredicto(TRUE, MOTIVO_I3_ANTERIOR)
             ELSE Veredicto(FALSE, "")
        ELSE Veredicto(FALSE, "")

\* Values of the es_ssd flag: an int, a bool (i is 0 or 1), a str (s) or None
ValInt(i)  == [tipo |-> "int", i |-> i, s |-> <<>>]
ValBool(b) == [tipo |-> "bool", i |-> IF b THEN 1 ELSE 0, s |-> <<>>]
ValStr(s)  == [tipo |-> "str", i |-> 0, s |-> s]
ValNone    == [tipo |-> "none", i |-> 0, s |-> <<>>]

RECURSIVE DigitsValue(_, _)
DigitsValue(s, acc) ==
    IF Len(s) = 0 THEN acc
    ELSE DigitsValue(Tail(s), 10 * acc + DigitVal(Head(s)))

RECURSIVE Strip(_)
Strip(s) ==
    IF Len(s) > 0 /\ IsSpace(s[1]) THEN Strip(Tail(s))
    ELSE IF Len(s) > 0 /\ IsSpace(s[Len(s)]) THEN Strip(SubSeq(s, 1, Len(s) - 1))
    ELSE s

\* int(v): [ok, i]; ok is false when int() raises (TypeError or ValueError)
IntDe(v) ==
    IF v.tipo \in {"int", "bool"} THEN [ok |-> TRUE, i |-> v.i]
    ELSE IF v.tipo = "none" THEN [ok |-> FALSE, i |-> 0]
    ELSE LET t == Strip(v.s)
             signo == Len(t) > 0 /\ t[1] \in {"+", "-"}
             ds == IF signo THEN Tail(t) ELSE t
         IN  IF Len(ds) > 0 /\ \A j \in 1..Len(ds) : IsDigit(ds[j])
             THEN [ok |-> TRUE,
                   i |-> IF signo /\ t[1] = "-" THEN -DigitsValue(ds, 0) ELSE DigitsValue(ds, 0)]
             ELSE [ok |-> FALSE, i |-> 0]

\* bool(v)
BoolDe(v) ==
    IF v.tipo \in {"int", "bool"} THEN v.i # 0
    ELSE IF v.tipo = "none" THEN FALSE
    ELSE Len(v.s) > 0

\* disco_excluido_politica taking the truth value of the flag without int()
disco_excluido_politica_sin_int(es_ssd_val) ==
    IF ~BoolDe(es_ssd_val) THEN Veredicto(TRUE, MOTIVO_DISCO) ELSE Veredicto(FALSE, "")

disco_excluido_politica(es_ssd_val) ==
    LET n == IntDe(es_ssd_val)
        flag == IF n.ok THEN n.i # 0 ELSE BoolDe(es_ssd_val)
    IN  IF ~flag THEN Veredicto(TRUE, MOTIVO_DISCO) ELSE Veredicto(FALSE, "")

(***************************************************************************)
(* vision_integration.py: inferir_danios                                   *)
(***************************************************************************)
Acentuadas == <<"á", "é", "í", "ó", "ú", "ñ", "Á", "É", "Í", "Ó", "Ú", "Ñ">>
SinAcento  == <<"a", "e", "i", "o", "u", "n", "A", "E", "I", "O", "U", "N">>

\* NFD decomposition with the combining marks (category Mn) removed
BaseOf == [c \in {Acentuadas[i] : i \in 1..Len(Acentuadas)} |->
             SinAcento[CHOOSE i \in 1..Len(Acentuadas) : Acentuadas[i] = c]]

SinMarca(c) == IF c \in DOMAIN BaseOf THEN BaseOf[c] ELSE c

NormalizeChar(c) == LowerChar(SinMarca(c))

\* _normalize: no accents, lower case
RECURSIVE normalize(_)
normalize(s) ==
    IF Len(s) = 0 THEN <<>> ELSE <<NormalizeChar(Head(s))>> \o normalize(Tail(s))

\* \b before position i of h; w(k): the character at k is a \w
WordBoundary(h, i) ==
    LET w(k) == /\ k >= 1 /\ k <= Len(h)
                /\ (h[k] \in LowerSet \/ h[k] \in UpperSet \/ h[k] \in DigitSet \/ h[k] = "_")
    IN  w(i - 1) # w(i)

\* The pattern built from needle n, from its j-th character on, followed by
\* \b, matches h at position i.  re.escape writes a space of the needle as
\* backslash-space, which replace() turns into the four characters \\s+ :
\* the regex for a literal backslash followed by one or more letters "s".
RECURSIVE PatternMatchesAt(_, _, _, _)
PatternMatchesAt(h, i, n, j) ==
    IF j > Len(n) THEN WordBoundary(h, i)
    ELSE IF n[j] = " "
    THEN /\ i <= Len(h)
         /\ h[i] = "\\"
         /\ \E k \in 1..(Len(h) - i) :
                /\ \A m \in 1..k : h[i + m] = "s"
                /\ PatternMatchesAt(h, i + 1 + k, n, j + 1)
    ELSE /\ i <= Len(h)
         /\ h[i] = n[j]
         /\ PatternMatchesAt(h, i + 1, n, j + 1)

\* re.search(r"\b" + n_pattern + r"\b", h) is not None
contains_word(haystack, needle) ==
    \E h \in {normalize(haystack)}, n \in {normalize(needle)} :
        \E i \in 1..(Len(h) + 1) : WordBoundary(h, i) /\ PatternMatchesAt(h, i, n, 1)

CLAVES == <<"pantalla_quebrada", "carcasa_danada", "rayones", "bisagra_rota",
            "teclado_incompleto", "manchas">>

keywords(key) ==
    IF key = "pantalla_quebrada" THEN
        <<<<"c", "r", "a", "c", "k">>,
          <<"c", "r", "a", "c", "k", "e", "d">>,
          <<"s", "h", "a", "t", "t", "e", "r", "e", "d">>,
          <<"s", "c", "r", "e", "e", "n", " ", "c", "r", "a", "c", "k">>,
          <<"p", "a", "n", "t", "a", "l", "l", "a", " ", "r", "o", "t", "a">>,
          <<"p", "a", "n", "t", "a", "l", "l", "a", " ", "q", "u", "e", "b", "r", "a", "d", "a">>>>
    ELSE IF key = "carcasa_danada" THEN
        <<<<"b", "r", "o", "k", "e", "n">>,
          <<"c", "h", "i", "p", "p", "e", "d">>,
          <<"d", "e", "n", "t">>,
          <<"b", "e", "n", "t">>,
          <<"a", "b", "o", "l", "l", "a", "d", "o">>,
          <<"c", "a", "r", "c", "a", "s", "a", " ", "r", "o", "t", "a">>,
          <<"c", "a", "r", "c", "a", "s", "a", " ", "d", "a", "ñ", "a", "d", "a">>>>
    ELSE IF key = "rayones" THEN
        <<<<"s", "c", "r", "a", "t", "c", "h">>,
          <<"s", "c", "r", "a", "t", "c", "h", "e", "d">>,
          <<"r", "a", "y", "a", "d", "o">>,
          <<"r", "a", "y", "o", "n", "e", "s">>>>
    ELSE IF key = "bisagra_rota" THEN
        <<<<"h", "i", "n", "g", "e">>,
          <<"h", "i", "n", "g", "e", " ", "b", "r", "o", "k", "e", "n">>,
          <<"b", "i", "s", "a", "g", "r", "a", " ", "r", "o", "t", "a">>>>
    ELSE IF key = "teclado_incompleto" THEN
        <<<<"m", "i", "s", "s", "i", "n", "g", " ", "k", "e", "y">>,
          <<"m", "i", "s", "s", "i", "n", "g", " ", "k", "e", "y", "s">>,
          <<"t", "e", "c", "l", "a", "s", " ", "f", "a", "l", "t", "a", "n", "t", "e", "s">>,
          <<"t", "e", "c", "l", "a", " ", "f", "a", "l", "t", "a", "n", "t", "e">>>>
    ELSE
        <<<<"s", "t", "a", "i", "n">>,
          <<"s", "t", "a", "i", "n", "e", "d">>,
          <<"s", "m", "u", "d", "g", "e">>,
          <<"m", "a", "n", "c", "h", "a", "s">>>>

\* the multiplier of each defect kind
factors(key) ==
    IF key = "pantalla_quebrada" THEN Fin(60, 100)
    ELSE IF key = "carcasa_danada" THEN Fin(85, 100)
    ELSE IF key = "rayones" THEN Fin(90, 100)
    ELSE IF key = "bisagra_rota" THEN Fin(80, 100)
    ELSE IF key = "teclado_incompleto" THEN Fin(85, 100)
    ELSE Fin(92, 100)

\* the least damage factor
FACTOR_MINIMO == Fin(50, 100)

carcasa_terms ==
    <<<<"c", "a", "r", "c", "a", "s", "a">>,
      <<"c", "a", "s", "e">>,
      <<"c", "h", "a", "s", "s", "i", "s">>,
      <<"c", "a", "s", "i", "n", "g">>,
      <<"s", "h", "e", "l", "l">>>>

carcasa_explicito ==
    <<<<"c", "a", "r", "c", "a", "s", "a", " ", "r", "o", "t", "a">>,
      <<"c", "a", "r", "c", "a", "s", "a", " ", "d", "a", "ñ", "a", "d", "a">>>>

pantalla_terms ==
    <<<<"p", "a", "n", "t", "a", "l", "l", "a">>,
      <<"s", "c", "r", "e", "e", "n">>>>

\* a line that cannot be a text: muestra = None
SinMuestra == <<"None">>

\* any(contains_word(text, t) for t in terms)
AnyWord(text, terms) == \E i \in 1..Len(terms) : contains_word(text, terms[i])

\* the least element of a non-empty set of numbers
Minimo(S) == CHOOSE x \in S : \A y \in S : x <= y

\* One turn of the loop over the defect kinds, up to the co-occurrence rules:
\* [found, origen, keyword, muestra]
BuscarDanio(key, tags, objects, ocr_lines) ==
    LET kws == keywords(key)
        text_ocr == Join(ocr_lines)
        text_tags == Join(tags)
        text_objs == Join(objects)
        enOcr == {i \in 1..Len(kws) : contains_word(text_ocr, kws[i])}
        enOtros == {i \in 1..Len(kws) :
                      contains_word(text_tags, kws[i]) \/ contains_word(text_objs, kws[i])}
    IN  IF enOcr # {}
        THEN LET kw == kws[Minimo(enOcr)]
                 ls == {l \in 1..Len(ocr_lines) : contains_word(ocr_lines[l], kw)}
             IN  [found |-> TRUE, origen |-> "ocr", keyword |-> kw,
                  muestra |-> IF ls = {} THEN SinMuestra ELSE Strip(ocr_lines[Minimo(ls)])]
        ELSE IF enOtros # {}
        THEN LET kw == kws[Minimo(enOtros)]
             IN  [found |-> TRUE,
                  origen |-> IF contains_word(text_tags, kw) THEN "tags" ELSE "objects",
                  keyword |-> kw, muestra |-> SinMuestra]
        ELSE [found |-> FALSE, origen |-> "None", keyword |-> <<"None">>,
              muestra |-> SinMuestra]

\* the co-occurrence rules without the one of pantalla_quebrada
Coocurrencia_sin_pantalla(key, tags, objects, ocr_lines) ==
    LET text_ocr == Join(ocr_lines)
        text_tags == Join(tags)
        text_objs == Join(objects)
        enAlguno(terms) ==
            AnyWord(text_ocr, terms) \/ AnyWord(text_tags, terms) \/ AnyWord(text_objs, terms)
    IN  IF key = "carcasa_danada"
        THEN enAlguno(carcasa_explicito) \/ enAlguno(carcasa_terms)
        ELSE TRUE

\* found after the co-occurrence rules of carcasa_danada and pantalla_quebrada
Coocurrencia(key, tags, objects, ocr_lines) ==
    LET text_ocr == Join(ocr_lines)
        text_tags == Join(tags)
        text_objs == Join(objects)
        enAlguno(terms) ==
            AnyWord(text_ocr, terms) \/ AnyWord(text_tags, terms) \/ AnyWord(text_objs, terms)
    IN  IF key = "carcasa_danada"
        THEN enAlguno(carcasa_explicito) \/ enAlguno(carcasa_terms)
        ELSE IF key = "pantalla_quebrada"
        THEN enAlguno(pantalla_terms)
        ELSE TRUE

EvaluarDanio(key, tags, objects, ocr_lines) ==
    LET b == BuscarDanio(key, tags, objects, ocr_lines)
    IN  [b EXCEPT !.found = b.found /\ Coocurrencia(key, tags, objects, ocr_lines)]

\* factor_total that keeps the multiplier of the last defect found only
RECURSIVE FactorTotal_ultimo(_, _)
FactorTotal_ultimo(found, k) ==
    IF k = 0 THEN Ent(1)
    ELSE IF found[CLAVES[k]] THEN factors(CLAVES[k])
    ELSE FactorTotal_ultimo(found, k - 1)

\* factor_total after the first k defect kinds
RECURSIVE FactorTotal(_, _)
FactorTotal(found, k) ==
    IF k = 0 THEN Ent(1)
    ELSE IF found[CLAVES[k]]
         THEN Mul(FactorTotal(found, k - 1), factors(CLAVES[k]))
         ELSE FactorTotal(found, k - 1)

\* the found defect kinds among the first k, in the order of the loop
RECURSIVE Encontrados(_, _)
Encontrados(found, k) ==
    IF k = 0 THEN <<>>
    ELSE IF found[CLAVES[k]]
         THEN Append(Encontrados(found, k - 1), CLAVES[k])
         ELSE Encontrados(found, k - 1)

\* key.replace("_", " ")
Motivo(key) ==
    IF key = "pantalla_quebrada" THEN "pantalla quebrada"
    ELSE IF key = "carcasa_danada" THEN "carcasa danada"
    ELSE IF key = "bisagra_rota" THEN "bisagra rota"
    ELSE IF key = "teclado_incompleto" THEN "teclado incompleto"
    ELSE key

\* the returned dict, from the outcome ev of the loop for each defect kind
ResultadoDanios(ev) ==
    LET found == [k \in DOMAIN ev |-> ev[k].found]
        orden == Encontrados(found, Len(CLAVES))
    IN  [danios_detectados |-> [k \in DOMAIN ev |-> IF found[k] THEN 1 ELSE 0],
         factor_danio |-> Max2(FactorTotal(found, Len(CLAVES)), FACTOR_MINIMO),
         motivos |-> [i \in 1..Len(orden) |-> Motivo(orden[i])],
         evidencias |-> [i \in 1..Len(orden) |->
                           [tipo |-> orden[i], keyword |-> ev[orden[i]].keyword,
                            origen |-> ev[orden[i]].origen, muestra |-> ev[orden[i]].muestra]]]

\* an element of a list that is not a str (None)
NoEsTexto == <<"None">>

\* " ".join(...) of lines 234-236 raises TypeError on an element that is not
\* a str, before any defect kind is looked at
inferir_danios(tags, objects, ocr_lines) ==
    IF \E l \in {tags, objects, ocr_lines} : \E i \in 1..Len(l) : l[i] = NoEsTexto
    THEN Raised
    ELSE CHOOSE r \in {ResultadoDanios(ev) :
                         ev \in {[k \in {CLAVES[i] : i \in 1..Len(CLAVES)} |->
                                    EvaluarDanio(k, tags, objects, ocr_lines)]}} : TRUE

(***************************************************************************)
(* config.py: MARKET_RULES                                                 *)
(***************************************************************************)
FACTOR_COMPRAVENTA == Fin(44, 100)
MIN_PRESTAMO == 100000
APLICAR_FACTOR_ML == TRUE

(***************************************************************************)
(* vision_integration.py: predecir_precio_con_imagenes, from the           *)
(* predictor's answer on.  numpy tells that the answer is a numpy float64  *)
(* (what a scikit-learn estimator returns) and not a Python float.         *)
(***************************************************************************)
\* danios.get("factor_danio") or 1.0
DanioFactor(danios) ==
    IF danios.factor_danio.n = 0 THEN Ent(1) ELSE danios.factor_danio

\* FactorMercado with the override taking precedence over the target
FactorMercado_override_primero(precio, factor_mercado, objetivo_precio, numpy) ==
    LET calculado == Div(objetivo_precio, precio, numpy)
    IN  IF factor_mercado # None THEN factor_mercado
        ELSE IF precio # None /\ objetivo_precio # None
                /\ calculado # Raised /\ Gt(calculado, Ent(0))
        THEN calculado
        ELSE FACTOR_COMPRAVENTA

\* the market factor: the override or the configured one, replaced by
\* objetivo_precio / precio when that division gives a value above 0
FactorMercado(precio, factor_mercado, objetivo_precio, numpy) ==
    LET factor == IF factor_mercado # None THEN factor_mercado ELSE FACTOR_COMPRAVENTA
        calculado == Div(objetivo_precio, precio, numpy)
    IN  IF precio # None /\ objetivo_precio # None
        THEN IF calculado # Raised /\ Gt(calculado, Ent(0)) THEN calculado ELSE factor
        ELSE factor

\* ComponerPrecio taking the lesser of the floor and the market price
ComponerPrecio_min(precio_base_ml, numpy, danios, factor_mercado, objetivo_precio) ==
    LET danio_factor == DanioFactor(danios)
        precio_post_danio ==
            IF precio_base_ml # None THEN Mul(precio_base_ml, danio_factor) ELSE None
        factor == FactorMercado(precio_post_danio, factor_mercado, objetivo_precio, numpy)
        minimo == Ent(MIN_PRESTAMO)
        aplica == precio_post_danio # None /\ APLICAR_FACTOR_ML
        precio_mercado_sin_minimo ==
            IF aplica THEN Mul(precio_post_danio, factor) ELSE None
    IN  [precio_predicho |->
             IF aplica
             THEN IF Lt(precio_mercado_sin_minimo, minimo)
                  THEN precio_mercado_sin_minimo ELSE minimo
             ELSE precio_post_danio,
         detalle |->
             [precio_base_ml |-> precio_base_ml,
              factor_danio |-> danios.factor_danio,
              precio_post_danio |-> precio_post_danio,
              danios |-> danios.danios_detectados,
              motivos_danios |-> danios.motivos,
              factor_compraventa |-> factor,
              min_prestamo |-> minimo,
              objetivo_precio |-> objetivo_precio,
              evidencias_danio |-> danios.evidencias,
              precio_mercado_sin_minimo |-> precio_mercado_sin_minimo]]

\* lines 428-468: the returned dict, without the features and the vision data
ComponerPrecio(precio_base_ml, numpy, danios, factor_mercado, objetivo_precio) ==
    LET danio_factor == DanioFactor(danios)
        precio_post_danio ==
            IF precio_base_ml # None THEN Mul(precio_base_ml, danio_factor) ELSE None
        factor == FactorMercado(precio_post_danio, factor_mercado, objetivo_precio, numpy)
        minimo == Ent(MIN_PRESTAMO)
        aplica == precio_post_danio # None /\ APLICAR_FACTOR_ML
        precio_mercado_sin_minimo ==
            IF aplica THEN Mul(precio_post_danio, factor) ELSE None
    IN  [precio_predicho |->
             IF aplica THEN Max2(minimo, precio_mercado_sin_minimo) ELSE precio_post_danio,
         detalle |->
             [precio_base_ml |-> precio_base_ml,
              factor_danio |-> danios.factor_danio,
              precio_post_danio |-> precio_post_danio,
              danios |-> danios.danios_detectados,
              motivos_danios |-> danios.motivos,
              factor_compraventa |-> factor,
              min_prestamo |-> minimo,
              objetivo_precio |-> objetivo_precio,
              evidencias_danio |-> danios.evidencias,
              precio_mercado_sin_minimo |-> precio_mercado_sin_minimo]]

(***************************************************************************)
(* api_server.py: the /avaluo handler                                      *)
(***************************************************************************)
COMUNES ==
    <<<<"c", "e", "l", "e", "r", "o", "n">>,
      <<"p", "e", "n", "t", "i", "u", "m">>,
      <<"c", "o", "r", "e", " ", "i", "3">>,
      <<"c", "o", "r", "e", " ", "i", "5">>,
      <<"c", "o", "r", "e", " ", "i", "7">>,
      <<"c", "o", "r", "e", " ", "i", "9">>,
      <<"r", "y", "z", "e", "n", " ", "3">>,
      <<"r", "y", "z", "e", "n", " ", "5">>,
      <<"r", "y", "z", "e", "n", " ", "7">>,
      <<"r", "y", "z", "e", "n", " ", "9">>,
      <<"x", "e", "o", "n">>,
      <<"a", "p", "p", "l", "e", " ", "m", "1">>,
      <<"a", "p", "p", "l", "e", " ", "m", "2">>,
      <<"a", "p", "p", "l", "e", " ", "m", "3">>>>

cpu_is_known(name) ==
    LET s == Lower(name)
    IN  \E i \in 1..Len(COMUNES) : Contains(s, COMUNES[i])

BRANDS ==
    <<<<"l", "e", "n", "o", "v", "o">>,
      <<"h", "p">>,
      <<"d", "e", "l", "l">>,
      <<"a", "s", "u", "s">>,
      <<"a", "c", "e", "r">>,
      <<"m", "s", "i">>,
      <<"a", "p", "p", "l", "e">>,
      <<"h", "u", "a", "w", "e", "i">>,
      <<"s", "a", "m", "s", "u", "n", "g">>,
      <<"m", "i", "c", "r", "o", "s", "o", "f", "t">>,
      <<"r", "a", "z", "e", "r">>,
      <<"a", "l", "i", "e", "n", "w", "a", "r", "e">>>>

\* no brand: _infer_brand returned None
MarcaNone == <<"None">>

UpperOf == [c \in LowerSet |-> UpperChars[CHOOSE i \in 1..Len(LowerChars) : LowerChars[i] = c]]

\* str.capitalize() of a lower-case word
Capitalize(w) ==
    IF Len(w) = 0 THEN w
    ELSE <<IF w[1] \in LowerSet THEN UpperOf[w[1]] ELSE w[1]>> \o Tail(w)

infer_brand(text) ==
    LET s == Lower(text)
        hay == {i \in 1..Len(BRANDS) : Contains(s, BRANDS[i])}
    IN  IF hay = {} THEN MarcaNone ELSE Capitalize(BRANDS[Minimo(hay)])

MENSAJE_RECHAZO == <<"N", "o", " ", "e", "s", " ", "p", "o", "s", "i", "b", "l", "e", " ", "r", "e", "a", "l", "i", "z", "a", "r", " ", "e", "l", " ", "c", "o", "n", "t", "r", "a", "t", "o", ",", " ", "p", "a", "r", "a", " ", "m", "a", "y", "o", "r", " ", "i", "n", "f", "o", "r", "m", "a", "c", "i", "ó", "n", " ", "c", "o", "m", "u", "n", "i", "c", "a", "r", "s", "e", " ", "a", " ", "l", "a", " ", "l", "í", "n", "e", "a", " ", "d", "e", " ", "a", "t", "e", "n", "c", "i", "ó", "n", " ", "o", " ", "a", " ", "u", "n", "a", " ", "s", "e", "d", "e", " ", "f", "í", "s", "i", "c", "a">>
MENSAJE_AVALUO == <<"T", "u", " ", "a", "v", "a", "l", "ú", "o", " ", "d", "e", "l", " ", "p", "c", " ", "e", "n", "v", "i", "a", "d", "o", " ", "e", "s", " ", "d", "e", " ", "$">>
MENSAJE_CONTINUAR == <<".", " ", "¿", "D", "e", "s", "e", "a", "s", " ", "c", "o", "n", "t", "i", "n", "u", "a", "r", " ", "c", "o", "n", " ", "e", "l", " ", "c", "o", "n", "t", "r", "a", "t", "o", "?">>

ADV_CPU_NO_COMUN == "El procesador ingresado no coincide con familias comunes (Celeron, Pentium, Core i*, Ryzen *). Verifica el nombre."
ADV_MARCA_NO_RECONOCIDA == "No se reconoce la marca en 'Marca / Modelo'. Ingresa HP, Dell, Lenovo, Asus, Acer, etc., o deja el campo vacio."
ERROR_PRECIO_NO_NUMERICO == "No se pudo calcular el precio (precio_predicho no numerico)"
\* str(e) of an exception caught by the handler
ERROR_EXCEPCION == "str(e)"

\* the decimal digits of n >= 0
RECURSIVE Digitos(_)
Digitos(n) ==
    IF n < 10 THEN <<DigitChars[n + 1]>>
    ELSE Digitos(n \div 10) \o <<DigitChars[(n % 10) + 1]>>

\* the three digits of n < 1000
TresDigitos(n) ==
    <<DigitChars[(n \div 100) + 1], DigitChars[((n \div 10) % 10) + 1], DigitChars[(n % 10) + 1]>>

\* format(n, ",") of an integer n >= 0: a comma before each group of three
RECURSIVE ConComas(_)
ConComas(n) ==
    IF n < 1000 THEN Digitos(n)
    ELSE ConComas(n \div 1000) \o <<",">> \o TresDigitos(n % 1000)

Respuesta500(err) ==
    [status |-> 500, ok |-> FALSE, error |-> err, precio_predicho |-> None,
     bloqueado_por_minimo |-> FALSE, mensaje_cliente |-> <<>>, advertencias |-> <<>>,
     detalle |-> [precio_base_ml |-> None, precio_post_danio |-> None,
                  precio_mercado_sin_minimo |-> None, min_prestamo |-> None]]

\* the advisories, in the order the handler appends them
Advertencias(sol, motivo_cpu, motivo_disco) ==
    (IF Len(sol.procesador) > 0 /\ ~cpu_is_known(sol.procesador)
        THEN <<ADV_CPU_NO_COMUN>> ELSE <<>>)
    \o (IF motivo_cpu # "" THEN <<motivo_cpu>> ELSE <<>>)
    \o (IF motivo_disco # "" THEN <<motivo_disco>> ELSE <<>>)
    \o (IF Len(sol.marca_modelo) > 0 /\ infer_brand(sol.marca_modelo) = MarcaNone
        THEN <<ADV_MARCA_NO_RECONOCIDA>> ELSE <<>>)

\* bloqueado_minimo with the comparison the other way round
BloqueadoMinimo_invertido(sin_minimo, minimo) ==
    sin_minimo # None /\ minimo # None /\ Lt(minimo, sin_minimo)

\* bloqueado_minimo of lines 284-289
BloqueadoMinimo(sin_minimo, minimo) ==
    sin_minimo # None /\ minimo # None /\ Lt(sin_minimo, minimo)

\* mensaje with the price truncated, int(precio_final_num), instead of rounded
Mensaje_truncado(bloqueado, precio_final_num) ==
    IF bloqueado THEN MENSAJE_RECHAZO
    ELSE MENSAJE_AVALUO \o ConComas(precio_final_num.n \div precio_final_num.d)
            \o MENSAJE_CONTINUAR

\* mensaje of lines 298-303
Mensaje(bloqueado, precio_final_num) ==
    IF bloqueado THEN MENSAJE_RECHAZO
    ELSE MENSAJE_AVALUO \o ConComas(RoundHalfEven(precio_final_num)) \o MENSAJE_CONTINUAR

\* lines 257-333: the response to a result of predecir_precio_con_imagenes
Decidir(sol, res) ==
    LET minimo == res.detalle.min_prestamo
        sin_minimo == res.detalle.precio_mercado_sin_minimo
        precio_final == res.precio_predicho
        bloqueado_minimo == BloqueadoMinimo(sin_minimo, minimo)
        cpu == cpu_excluido_politica(sol.procesador)
        disco == disco_excluido_politica(sol.es_ssd)
        bloqueado == bloqueado_minimo \/ cpu.bloqueado \/ disco.bloqueado
    IN  IF precio_final = None THEN Respuesta500(ERROR_PRECIO_NO_NUMERICO)
        \* int(round(inf)) and int(round(nan)) raise, caught at line 334
        ELSE IF ~bloqueado /\ ~IsFin(precio_final) THEN Respuesta500(ERROR_EXCEPCION)
        ELSE [status |-> 200, ok |-> TRUE, error |-> "",
              precio_predicho |-> precio_final,
              bloqueado_por_minimo |-> bloqueado,
              mensaje_cliente |-> Mensaje(bloqueado, precio_final),
              advertencias |-> Advertencias(sol, cpu.motivo, disco.motivo),
              \* resultado.get("precio_base_ml"): the result has no such key
              detalle |-> [precio_base_ml |-> None,
                           precio_post_danio |-> res.detalle.precio_post_danio,
                           precio_mercado_sin_minimo |-> sin_minimo,
                           min_prestamo |-> minimo]]

(***************************************************************************)
(* The feature vector: _infer_cpu_score and the user's entry of            *)
(* api_server.py, and inferir_marca, extraer_indicios_especificaciones and *)
(* construir_features_desde_vision of vision_integration.py, without the   *)
(* graphics flag.  An absent number is None.                               *)
(***************************************************************************)
\* _infer_cpu_score, lines 49-80: the families in the order of the tests,
\* each with the texts that must all occur and its score
CPU_SCORES ==
    <<[keys |-> {<<"c", "e", "l", "e", "r", "o", "n">>}, score |-> 2],
      [keys |-> {<<"a", "t", "h", "l", "o", "n">>}, score |-> 3],
      [keys |-> {<<"p", "e", "n", "t", "i", "u", "m">>}, score |-> 3],
      [keys |-> {<<"s", "i", "l", "v", "e", "r">>, <<"p", "e", "n", "t", "i", "u", "m">>}, score |-> 3],
      [keys |-> {<<"c", "o", "r", "e", " ", "i", "3">>}, score |-> 4],
      [keys |-> {<<"c", "o", "r", "e", " ", "i", "5">>}, score |-> 6],
      [keys |-> {<<"c", "o", "r", "e", " ", "i", "7">>}, score |-> 8],
      [keys |-> {<<"c", "o", "r", "e", " ", "i", "9">>}, score |-> 9],
      [keys |-> {<<"r", "y", "z", "e", "n", " ", "3">>}, score |-> 4],
      [keys |-> {<<"r", "y", "z", "e", "n", " ", "5">>}, score |-> 6],
      [keys |-> {<<"r", "y", "z", "e", "n", " ", "7">>}, score |-> 8],
      [keys |-> {<<"r", "y", "z", "e", "n", " ", "9">>}, score |-> 9],
      [keys |-> {<<"x", "e", "o", "n">>}, score |-> 7],
      [keys |-> {<<"a", "p", "p", "l", "e", " ", "m", "1">>}, score |-> 7],
      [keys |-> {<<"a", "p", "p", "l", "e", " ", "m", "2">>}, score |-> 8],
      [keys |-> {<<"a", "p", "p", "l", "e", " ", "m", "3">>}, score |-> 9]>>

\* _infer_cpu_score taking the highest score among the families named
infer_cpu_score_mayor(name) ==
    LET s == Lower(name)
        hay == {i \in 1..Len(CPU_SCORES) : \A k \in CPU_SCORES[i].keys : Contains(s, k)}
    IN  IF hay = {} THEN 4
        ELSE CHOOSE n \in {CPU_SCORES[i].score : i \in hay} :
                 \A i \in hay : CPU_SCORES[i].score <= n

infer_cpu_score(name) ==
    LET s == Lower(name)
        hay == {i \in 1..Len(CPU_SCORES) : \A k \in CPU_SCORES[i].keys : Contains(s, k)}
    IN  IF Len(name) = 0 \/ hay = {} THEN 4
        ELSE CPU_SCORES[Minimo(hay)].score

\* a or b of Python, for numbers that may be None
PyOr(a, b) == IF a # None /\ a.n # 0 THEN a ELSE b

\* dict.get: the score of a brand in a table of <<brand, score>>, or None
MapGet(tabla, marca) ==
    IF \E i \in 1..Len(tabla) : tabla[i][1] = marca
    THEN Ent(tabla[CHOOSE i \in 1..Len(tabla) : tabla[i][1] = marca][2])
    ELSE None

\* marca_score_map of api_server.py, lines 208-221
MARCA_SCORE_MAP_API ==
    <<<<<<"L", "e", "n", "o", "v", "o">>, 5>>,
      <<<<"H", "P">>, 5>>,
      <<<<"D", "e", "l", "l">>, 5>>,
      <<<<"A", "s", "u", "s">>, 4>>,
      <<<<"A", "c", "e", "r">>, 4>>,
      <<<<"M", "S", "I">>, 4>>,
      <<<<"A", "p", "p", "l", "e">>, 6>>,
      <<<<"H", "u", "a", "w", "e", "i">>, 4>>,
      <<<<"S", "a", "m", "s", "u", "n", "g">>, 4>>,
      <<<<"M", "i", "c", "r", "o", "s", "o", "f", "t">>, 5>>,
      <<<<"R", "a", "z", "e", "r">>, 5>>,
      <<<<"A", "l", "i", "e", "n", "w", "a", "r", "e">>, 6>>>>

\* entrada_usuario of the handler, lines 203-233; form holds the fields
EntradaUsuario(form) ==
    LET marca_detectada == infer_brand(form.marca_modelo)
    IN  [es_ssd |-> form.es_ssd,
         capacidad_disco_gb |-> form.capacidad_disco_gb,
         ram_gb |-> form.ram_gb,
         generacion_procesador |-> Ent(infer_generation(form.procesador)),
         procesador_score |-> Ent(infer_cpu_score(form.procesador)),
         marca_score |-> IF marca_detectada # MarcaNone
                         THEN MapGet(MARCA_SCORE_MAP_API, marca_detectada)
                         ELSE None]

\* inferir_marca, lines 102-131
inferir_marca(prefer_brands, ocr_lines) ==
    LET known_brands ==
            <<<<"a", "c", "e", "r">>, <<"a", "p", "p", "l", "e">>, <<"a", "s", "u", "s">>,
              <<"d", "e", "l", "l">>, <<"h", "p">>, <<"h", "u", "a", "w", "e", "i">>,
              <<"l", "e", "n", "o", "v", "o">>,
              <<"m", "i", "c", "r", "o", "s", "o", "f", "t">>, <<"m", "s", "i">>,
              <<"s", "a", "m", "s", "u", "n", "g">>>>
        dadas == {i \in 1..Len(prefer_brands) : Len(prefer_brands[i]) > 0}
        text_all == Lower(Join(ocr_lines))
        hay == {i \in 1..Len(known_brands) : Contains(text_all, known_brands[i])}
    IN  IF dadas # {} THEN prefer_brands[Minimo(dadas)]
        ELSE IF Contains(text_all, <<"v", "i", "c", "t", "u", "s">>) THEN <<"H", "P">>
        ELSE IF hay # {} THEN Capitalize(known_brands[Minimo(hay)])
        ELSE MarcaNone

\* re.search(r"(\d{1,3})\s*" + token, text) tried at position p: the number
\* of the group, or None
NumUnidadAt(text, p, token) ==
    LET ks == {k \in 1..3 :
                  /\ p + k - 1 <= Len(text)
                  /\ \A j \in p..(p + k - 1) : IsDigit(text[j])
                  /\ HasAt(text, SkipSpaces(text, p + k), token)}
    IN  IF ks = {} THEN None
        ELSE Ent(DigitsValue(SubSeq(text, p, p + (CHOOSE k \in ks : \A o \in ks : o <= k) - 1), 0))

\* _buscar_num_unidad, lines 141-149, on a list of <<token, multiplier>>
RECURSIVE buscar_num_unidad(_, _)
buscar_num_unidad(text, patterns) ==
    IF Len(patterns) = 0 THEN None
    ELSE LET token == patterns[1][1]
             ps == {p \in 1..Len(text) : NumUnidadAt(text, p, token) # None}
         IN  IF Contains(text, token) /\ ps # {}
             THEN Ent(NumUnidadAt(text, Minimo(ps), token).n * patterns[1][2])
             ELSE buscar_num_unidad(text, Tail(patterns))

\* re.search(r"i[3579]-?(\d{2})(\d{2,3})", text) tried at position p: the
\* number of the first group, or None
GeneracionIndicioAt(text, p) ==
    LET q == IF p + 2 <= Len(text) /\ text[p + 2] = "-" THEN p + 3 ELSE p + 2
    IN  IF /\ q + 3 <= Len(text)
           /\ text[p] = "i" /\ IsOdd3579(text[p + 1])
           /\ \A j \in q..(q + 3) : IsDigit(text[j])
        THEN Ent(DigitsValue(SubSeq(text, q, q + 1), 0))
        ELSE None

\* extraer_indicios_especificaciones, lines 134-208
extraer_indicios(ocr_lines) ==
    LET text == Lower(Join(ocr_lines))
        gs == {p \in 1..Len(text) : GeneracionIndicioAt(text, p) # None}
        g == IF gs = {} THEN None ELSE GeneracionIndicioAt(text, Minimo(gs))
    IN  [ram_gb |-> buscar_num_unidad(text,
                        <<<<<<"g", "b", " ", "r", "a", "m">>, 1>>,
                          <<<<"r", "a", "m", " ", "g", "b">>, 1>>,
                          <<<<"r", "a", "m">>, 1>>>>),
         capacidad_disco_gb |-> buscar_num_unidad(text,
                        <<<<<<"g", "b", " ", "s", "s", "d">>, 1>>,
                          <<<<"g", "b", " ", "h", "d", "d">>, 1>>,
                          <<<<"g", "b">>, 1>>,
                          <<<<"t", "b">>, 1024>>>>),
         generacion_procesador |-> IF g # None /\ 1 < g.n /\ g.n < 20 THEN g ELSE None]

\* marca_score_map of construir_features_desde_vision, lines 353-364
MARCA_SCORE_MAP ==
    <<<<<<"L", "e", "n", "o", "v", "o">>, 5>>,
      <<<<"H", "P">>, 5>>,
      <<<<"D", "e", "l", "l">>, 5>>,
      <<<<"A", "s", "u", "s">>, 4>>,
      <<<<"A", "c", "e", "r">>, 4>>,
      <<<<"M", "S", "I">>, 4>>,
      <<<<"A", "p", "p", "l", "e">>, 6>>,
      <<<<"H", "u", "a", "w", "e", "i">>, 4>>,
      <<<<"S", "a", "m", "s", "u", "n", "g">>, 4>>,
      <<<<"M", "i", "c", "r", "o", "s", "o", "f", "t">>, 5>>>>

\* construir_features_desde_vision, lines 340-386
construir_features(vision_result, entrada_usuario) ==
    LET marca == inferir_marca(vision_result.brands, vision_result.ocr_lines)
        indicios == extraer_indicios(vision_result.ocr_lines)
    IN  [marca_score |->
             PyOr(entrada_usuario.marca_score,
                  IF marca # MarcaNone THEN MapGet(MARCA_SCORE_MAP, marca) ELSE Ent(4)),
         es_ssd |-> entrada_usuario.es_ssd,
         capacidad_disco_gb |-> PyOr(PyOr(entrada_usuario.capacidad_disco_gb,
                                          indicios.capacidad_disco_gb), Ent(256)),
         ram_gb |-> PyOr(PyOr(entrada_usuario.ram_gb, indicios.ram_gb), Ent(8)),
         generacion_procesador |-> PyOr(PyOr(entrada_usuario.generacion_procesador,
                                             indicios.generacion_procesador), Ent(10)),
         procesador_score |-> PyOr(entrada_usuario.procesador_score, Ent(4)),
         marca_detectada |-> marca]

(***************************************************************************)
(* Inputs of the pure functions                                            *)
(***************************************************************************)
F_Celeron == <<"C", "e", "l", "e", "r", "o", "n">>
F_Atom    == <<"A", "t", "o", "m">>
F_core_i5 == <<"c", "o", "r", "e", " ", "i", "5">>

FragmentosProcesador ==
    {<<"C", "o", "r", "e", " ", "i", "3">> (* "Core i3" *),
     <<"C", "O", "R", "E", " ", "I", "3">>,   \* "CORE I3"
     <<"I", "n", "t", "e", "l", " ">>,   \* "Intel "
     <<"i", "3">>,   \* "i3"
     <<"-", "8", "1", "3", "0", "U">>,   \* "-8130U"
     <<"-", "1", "1", "1", "5", "G", "4">> (* "-1115G4" *),
     <<"-", "1", "0", "1", "1", "0", "U">>,   \* "-10110U"
     <<"-", "7", "1", "0", "0">>,   \* "-7100"
     <<" ">>,   \* " "
     F_Celeron,
     <<"P", "E", "N", "T", "I", "U", "M">> (* "PENTIUM" *),
     F_Atom,
     <<"R", "y", "z", "e", "n", " ", "5", " ">>,   \* "Ryzen 5 "
     <<"5", "6", "0", "0", "U">>,   \* "5600U"
     F_core_i5,
     <<" ", "1", "2", "t", "h">>}   \* " 12th"

\* longest processor text, in fragments
MaxFragmentos == 2

RECURSIVE Concatenaciones(_, _)
Concatenaciones(frags, k) ==
    IF k = 0 THEN {<<>>}
    ELSE LET menos == Concatenaciones(frags, k - 1)
         IN  menos \cup {t \o f : t \in menos, f \in frags}


\* recognized text lines, tags and objects of the evidence
L_cracked_screen == <<"C", "r", "a", "c", "k", "e", "d", " ", "s", "c", "r", "e", "e", "n">>
L_muy_danado == <<"c", "r", "a", "c", "k", "e", "d", " ", "s", "c", "r", "e", "e", "n", ",", " ", "b", "e", "n", "t", " ", "s", "h", "e", "l", "l", ",", " ", "s", "c", "r", "a", "t", "c", "h", "e", "d", ",", " ", "s", "t", "a", "i", "n", "e", "d">>

LineasOcr ==
    {L_cracked_screen,
     <<"c", "r", "a", "c", "k">>,   \* "crack"
     <<"P", "a", "n", "t", "a", "l", "l", "a", " ", "R", "o", "t", "a">>,   \* "Pantalla Rota"
     <<"s", "m", "a", "l", "l", " ", "d", "e", "n", "t">>,   \* "small dent"
     <<"m", "i", "s", "s", "i", "n", "g", " ", "k", "e", "y", "s">>,   \* "missing keys"
     <<"C", "a", "r", "c", "a", "s", "a", " ", "d", "a", "ñ", "a", "d", "a">>,   \* "Carcasa dañada"
     <<"i", "d", "e", "n", "t", "i", "f", "i", "c", "a", "d", "o", "r">>,   \* "identificador"
     L_muy_danado}
Etiquetas ==
    {<<>>,
     <<<<"b", "r", "o", "k", "e", "n">>>>,   \* "broken"
     <<<<"s", "c", "r", "a", "t", "c", "h", "e", "d">> (* "scratched" *), <<"s", "c", "r", "e", "e", "n">> (* "screen" *)>>}
Objetos ==
    {<<>>,
     <<<<"h", "i", "n", "g", "e">>, <<"c", "a", "s", "e">>>>,   \* "hinge", "case"
     <<<<"s", "c", "r", "a", "t", "c", "h">>>>}   \* "scratch"

\* most recognized text lines of a request
MaxLineas == 2

RECURSIVE Listas(_, _)
Listas(S, k) ==
    IF k = 0 THEN {<<>>}
    ELSE LET menos == Listas(S, k - 1)
         IN  menos \cup {Append(l, x) : l \in menos, x \in S}

Evidencias ==
    {[tags |-> t, objects |-> o, ocr_lines |-> l] :
        t \in Etiquetas, o \in Objetos, l \in Listas(LineasOcr, MaxLineas)}

\* inputs of the price composition
EvidenciasPrecio ==
    {[tags |-> <<>>, objects |-> <<>>, ocr_lines |-> <<>>],
     [tags |-> <<>>, objects |-> <<>>, ocr_lines |-> <<L_cracked_screen>>],
     [tags |-> <<<<"s", "c", "r", "a", "t", "c", "h", "e", "d">> (* "scratched" *), <<"s", "c", "r", "e", "e", "n">> (* "screen" *)>>, objects |-> <<>>, ocr_lines |-> <<L_cracked_screen>>],
     [tags |-> <<>>, objects |-> <<>>, ocr_lines |-> <<L_muy_danado>>]}

EntradasPrecio ==
    {[base |-> b, numpy |-> np, ev |-> ev, factor_mercado |-> f, objetivo_precio |-> o] :
        b \in {None} \cup {Ent(v) : v \in {0, 100000, 250001, 1000000, 2000000}},
        np \in BOOLEAN,
        ev \in EvidenciasPrecio,
        f \in {None, Ent(0), Fin(44, 100), Fin(1, 2), Ent(1)},
        o \in {None, Ent(-50000), Ent(0), Ent(50000), Ent(100000), Ent(440000)}}

ValoresSsd ==
    {ValInt(i) : i \in -1..2} \cup {ValBool(b) : b \in BOOLEAN}
        \cup {ValNone, ValStr(<<>>), ValStr(<<"0">>), ValStr(<<"1">>)}

(***************************************************************************)
(* One /avaluo request                                                     *)
(***************************************************************************)
P_Core_i5_1135G7 == <<"C", "o", "r", "e", " ", "i", "5", "-", "1", "1", "3", "5", "G", "7">>

\* the form fields: procesador and marca_modelo are optional texts (absent:
\* the empty text), es_ssd an int, the two factors optional floats
Procesadores ==
    {<<>>,
     P_Core_i5_1135G7,
     <<"C", "o", "r", "e", " ", "i", "3">>,   \* "Core i3"
     <<"C", "o", "r", "e", " ", "i", "3", "-", "8", "1", "3", "0", "U">>,   \* "Core i3-8130U"
     <<"C", "e", "l", "e", "r", "o", "n", " ", "N", "4", "0", "2", "0">> (* "Celeron N4020" *),
     <<"R", "y", "z", "e", "n", " ", "5", " ", "5", "6", "0", "0", "U">>,   \* "Ryzen 5 5600U"
     <<"I", "n", "t", "e", "l", " ", "A", "t", "o", "m", " ", "x", "5">>}   \* "Intel Atom x5"
Marcas ==
    {<<>>,
     <<"H", "P", " ", "P", "a", "v", "i", "l", "i", "o", "n">>,   \* "HP Pavilion"
     <<"G", "e", "n", "e", "r", "i", "c", "a", " ", "X", "1">>}   \* "Generica X1"
FactoresMercado == {None, Fin(1, 2)}
Objetivos == {None, Ent(0), Ent(50000), Ent(440000)}

\* what the vision service recognized in the images of the request
EvidenciasSolicitud ==
    {[tags |-> <<>>, objects |-> <<>>, ocr_lines |-> <<>>],
     [tags |-> <<>>, objects |-> <<>>, ocr_lines |-> <<L_cracked_screen>>],
     [tags |-> <<<<"s", "c", "r", "a", "t", "c", "h", "e", "d">> (* "scratched" *), <<"s", "c", "r", "e", "e", "n">> (* "screen" *)>>, objects |-> <<>>, ocr_lines |-> <<L_muy_danado>>]}

\* what the predictor answered: None, or a price as a numpy float64 or as a
\* Python float
PreciosBase ==
    {[valor |-> None, numpy |-> TRUE]}
        \cup {[valor |-> Ent(v), numpy |-> TRUE] : v \in {0, 100000, 250001, 250002, 1000000, 2000000}}
        \cup {[valor |-> Ent(v), numpy |-> FALSE] : v \in {0, 2000000}}

SinSolicitud == [procesador |-> <<>>, es_ssd |-> ValNone, marca_modelo |-> <<>>,
                 factor_mercado |-> None, objetivo_precio |-> None]

Init ==
    /\ pc = "inicio"
    /\ solicitud = SinSolicitud
    /\ resultado = None
    /\ respuesta = None
    /\ fn = "avaluo"
    /\ arg = None
    /\ ret = None
    /\ SinConcurrencia

\* the request arrives with its form fields
Recibir ==
    /\ pc = "inicio"
    /\ \E p \in Procesadores, s \in {ValInt(0), ValInt(1)}, m \in Marcas,
          f \in FactoresMercado, o \in Objetivos :
           solicitud' = [procesador |-> p, es_ssd |-> s, marca_modelo |-> m,
                         factor_mercado |-> f, objetivo_precio |-> o]
    /\ pc' = "integracion"
    /\ UNCHANGED <<resultado, respuesta, fn, arg, ret, archivos, tmpdir, previas>>

\* predecir_precio_con_imagenes returns
Integrar ==
    /\ pc = "integracion"
    /\ \E ev \in EvidenciasSolicitud :
           \E danios \in {inferir_danios(ev.tags, ev.objects, ev.ocr_lines)} :
               \E base \in PreciosBase :
                   resultado' = ComponerPrecio(base.valor, base.numpy, danios,
                                               solicitud.factor_mercado,
                                               solicitud.objetivo_precio)
    /\ pc' = "decision"
    /\ UNCHANGED <<solicitud, respuesta, fn, arg, ret, archivos, tmpdir, previas>>

\* predecir_precio_con_imagenes raises: the vision client cannot be built or
\* the analysis of an image fails
IntegrarFalla ==
    /\ pc = "integracion"
    /\ resultado' = Raised
    /\ pc' = "decision"
    /\ UNCHANGED <<solicitud, respuesta, fn, arg, ret, archivos, tmpdir, previas>>

\* the handler answers
Responder ==
    /\ pc = "decision"
    /\ respuesta' = IF resultado = Raised THEN Respuesta500(ERROR_EXCEPCION)
                    ELSE Decidir(solicitud, resultado)
    /\ pc' = "fin"
    /\ UNCHANGED <<solicitud, resultado, fn, arg, ret, archivos, tmpdir, previas>>

\* demo_vision_prediccion.py, main in client mode (lines 65-81), on the
\* result the request got: what it prints, or Raised
modo_cliente(res) ==
    IF res = Raised THEN Raised
    ELSE LET minimo == res.detalle.min_prestamo
             sin_minimo == res.detalle.precio_mercado_sin_minimo
             precio_final == res.precio_predicho
         IN  IF sin_minimo # None /\ minimo # None /\ Lt(sin_minimo, minimo)
             THEN [rechaza |-> TRUE, monto |-> <<>>]
             \* "{:,.0f}".format(None) raises TypeError
             ELSE IF precio_final = None THEN Raised
             ELSE [rechaza |-> FALSE,
                   monto |-> IF precio_final.t = "inf" THEN <<"i", "n", "f">>
                             ELSE IF precio_final.t = "nan" THEN <<"n", "a", "n">>
                             ELSE ConComas(RoundHalfEven(precio_final))]

\* the command-line client run on the fields, evidence and predictor answer
\* of the request
ModoCliente ==
    /\ pc = "fin"
    /\ ret' = modo_cliente(resultado)
    /\ pc' = "cli"
    /\ UNCHANGED <<solicitud, resultado, respuesta, fn, arg, archivos, tmpdir, previas>>

Next == Recibir \/ Integrar \/ IntegrarFalla \/ Responder \/ ModoCliente

Spec == Init /\ [][Next]_vars

(***************************************************************************)
(* The pure functions applied to each of their inputs                      *)
(***************************************************************************)
InitFn ==
    /\ pc = "llamada"
    /\ \/ fn = "cpu_excluido_politica" /\ arg \in Concatenaciones(FragmentosProcesador, MaxFragmentos)
       \/ fn = "disco_excluido_politica" /\ arg \in ValoresSsd
       \/ fn = "predecir_precio_con_imagenes" /\ arg \in EntradasPrecio
    /\ ret = None
    /\ solicitud = SinSolicitud
    /\ resultado = None
    /\ respuesta = None
    /\ SinConcurrencia

LlamarCpu ==
    /\ pc = "llamada" /\ fn = "cpu_excluido_politica"
    /\ ret' = [veredicto |-> cpu_excluido_politica(arg), gen |-> infer_generation(arg),
               score |-> infer_cpu_score(arg)]
    /\ pc' = "retorno"
    /\ UNCHANGED <<fn, arg, solicitud, resultado, respuesta, archivos, tmpdir, previas>>

LlamarDisco ==
    /\ pc = "llamada" /\ fn = "disco_excluido_politica"
    /\ ret' = disco_excluido_politica(arg)
    /\ pc' = "retorno"
    /\ UNCHANGED <<fn, arg, solicitud, resultado, respuesta, archivos, tmpdir, previas>>

LlamarDanios ==
    /\ pc = "llamada" /\ fn = "inferir_danios"
    /\ ret' = inferir_danios(arg.tags, arg.objects, arg.ocr_lines)
    /\ pc' = "retorno"
    /\ UNCHANGED <<fn, arg, solicitud, resultado, respuesta, archivos, tmpdir, previas>>

LlamarPrecio ==
    /\ pc = "llamada" /\ fn = "predecir_precio_con_imagenes"
    /\ \E danios \in {inferir_danios(arg.ev.tags, arg.ev.objects, arg.ev.ocr_lines)} :
           ret' = ComponerPrecio(arg.base, arg.numpy, danios,
                                 arg.factor_mercado, arg.objetivo_precio)
    /\ pc' = "retorno"
    /\ UNCHANGED <<fn, arg, solicitud, resultado, respuesta, archivos, tmpdir, previas>>

NextFn == LlamarCpu \/ LlamarDisco \/ LlamarPrecio

SpecFn == InitFn /\ [][NextFn]_vars

\* inferir_danios applied to each evidence
InitDanios ==
    /\ pc = "llamada"
    /\ fn = "inferir_danios"
    /\ arg \in Evidencias
    /\ ret = None
    /\ solicitud = SinSolicitud
    /\ resultado = None
    /\ respuesta = None
    /\ SinConcurrencia

NextDanios == LlamarDanios

SpecDanios == InitDanios /\ [][NextDanios]_vars

\* the call on evidence whose lists may hold an element that is not a str
InitDaniosFalla ==
    /\ pc = "llamada"
    /\ fn = "inferir_danios"
    /\ arg \in {[tags |-> t, objects |-> o, ocr_lines |-> l] :
            t \in {<<>>,
                   <<NoEsTexto>>,
                   <<<<"b", "r", "o", "k", "e", "n">>>>},   \* "broken"
            o \in {<<>>,
                   <<NoEsTexto>>,
                   <<<<"h", "i", "n", "g", "e">>, <<"c", "a", "s", "e">>>>},   \* "hinge", "case"
            l \in Listas({L_cracked_screen,
                          <<"s", "m", "a", "l", "l", " ", "d", "e", "n", "t">>,   \* "small dent"
                          L_muy_danado,
                          NoEsTexto}, MaxLineas)}
    /\ ret = None
    /\ solicitud = SinSolicitud
    /\ resultado = None
    /\ respuesta = None
    /\ SinConcurrencia

SpecDaniosFalla == InitDaniosFalla /\ [][NextDanios]_vars

(***************************************************************************)
(* The feature vector built from each user's entry and each evidence       *)
(***************************************************************************)
\* what the vision service recognized: logos and text lines
VisionesRasgos ==
    {[brands |-> b, ocr_lines |-> o] :
        b \in {<<>>,
               <<<<"H", "P">>>>,   \* "HP"
               <<<<"S", "o", "n", "y">>>>},   \* "Sony"
        o \in {<<>>,
               <<<<"1", "6", "G", "B", " ", "R", "A", "M">>>>,   \* "16GB RAM"
               <<<<"5", "1", "2", "G", "B", " ", "S", "S", "D">>,   \* "512GB SSD"
                 <<"I", "n", "t", "e", "l", " ", "C", "o", "r", "e", " ", "i", "5", "-", "1", "1", "3", "5", "G", "7">>>>,   \* "Intel Core i5-1135G7"
               <<<<"h", "p", " ", "p", "a", "v", "i", "l", "i", "o", "n">>>>,   \* "hp pavilion"
               <<<<"1", " ", "T", "B">>>>}}   \* "1 TB"

\* the user's entry as a caller of predecir_precio_con_imagenes gives it,
\* and the form fields as /avaluo receives them
EntradasRasgos ==
    {[vision |-> v,
      entrada |-> [es_ssd |-> ValInt(1), capacidad_disco_gb |-> c, ram_gb |-> r,
                   generacion_procesador |-> g, procesador_score |-> ps,
                   marca_score |-> ms]] :
        v \in VisionesRasgos,
        c \in {None, Ent(0), Ent(1000)}, r \in {None, Ent(0), Ent(4)},
        g \in {None, Ent(0), Ent(8)}, ps \in {None, Ent(6)}, ms \in {None, Ent(6)}}

FormulariosRasgos ==
    {[vision |-> v,
      form |-> [es_ssd |-> ValInt(1), capacidad_disco_gb |-> c, ram_gb |-> Ent(8),
                marca_modelo |-> m, procesador |-> p]] :
        v \in VisionesRasgos,
        c \in {Ent(0), Ent(256)},
        m \in {<<>>,
               <<"H", "P", " ", "P", "a", "v", "i", "l", "i", "o", "n">>,   \* "HP Pavilion"
               <<"L", "e", "n", "o", "v", "o", " ", "T", "h", "i", "n", "k", "P", "a", "d">>,   \* "Lenovo ThinkPad"
               <<"M", "S", "I", " ", "K", "a", "t", "a", "n", "a">>,   \* "MSI Katana"
               <<"G", "e", "n", "e", "r", "i", "c", "a", " ", "X", "1">>},   \* "Generica X1"
        p \in {<<>>, P_Core_i5_1135G7}}

\* text lines of the stickers of a computer
LineasSticker ==
    {<<"1", "6", "G", "B", " ", "R", "A", "M">>,   \* "16GB RAM"
     <<"1", "T", "B", " ", "S", "S", "D">>,   \* "1TB SSD"
     <<"5", "1", "2", "G", "B", " ", "S", "S", "D">>,   \* "512GB SSD"
     <<"2", " ", "T", "B">>,   \* "2 TB"
     <<"i", "7", "-", "8", "5", "5", "0", "U">>,   \* "i7-8550U"
     <<"I", "n", "t", "e", "l", " ", "C", "o", "r", "e", " ", "i", "5", "-", "1", "1", "3", "5", "G", "7">>,   \* "Intel Core i5-1135G7"
     <<"i", "5", "-", "1", "0", "2", "1", "0", "U">>}   \* "i5-10210U"

InitRasgos ==
    /\ pc = "llamada"
    /\ \/ fn = "construir_features_desde_vision" /\ arg \in EntradasRasgos
       \/ fn = "avaluo" /\ arg \in FormulariosRasgos
       \/ fn = "extraer_indicios_especificaciones" /\ arg \in Listas(LineasSticker, MaxLineas)
    /\ ret = None
    /\ solicitud = SinSolicitud
    /\ resultado = None
    /\ respuesta = None
    /\ SinConcurrencia

\* construir_features_desde_vision on a user's entry
LlamarRasgos ==
    /\ pc = "llamada" /\ fn = "construir_features_desde_vision"
    /\ ret' = construir_features(arg.vision, arg.entrada)
    /\ pc' = "retorno"
    /\ UNCHANGED <<fn, arg, solicitud, resultado, respuesta, archivos, tmpdir, previas>>

\* /avaluo up to the feature vector: lines 203-233 and 416 of
\* vision_integration.py
LlamarEntrada ==
    /\ pc = "llamada" /\ fn = "avaluo"
    /\ ret' = construir_features(arg.vision, EntradaUsuario(arg.form))
    /\ pc' = "retorno"
    /\ UNCHANGED <<fn, arg, solicitud, resultado, respuesta, archivos, tmpdir, previas>>

\* extraer_indicios_especificaciones on the recognized text lines
LlamarIndicios ==
    /\ pc = "llamada" /\ fn = "extraer_indicios_especificaciones"
    /\ ret' = extraer_indicios(arg)
    /\ pc' = "retorno"
    /\ UNCHANGED <<fn, arg, solicitud, resultado, respuesta, archivos, tmpdir, previas>>

NextRasgos == LlamarRasgos \/ LlamarEntrada \/ LlamarIndicios

SpecRasgos == InitRasgos /\ [][NextRasgos]_vars

RetornoDe(f) == pc = "retorno" /\ fn = f

(***************************************************************************)
(* C2-C4: the CPU policy                                                   *)
(***************************************************************************)
\* a processor text that contains a disallowed family in any letter case
NombraExcluido(name) ==
    \E k \in {<<"p", "e", "n", "t", "i", "u", "m">> (* "pentium" *), <<"c", "e", "l", "e", "r", "o", "n">> (* "celeron" *), <<"a", "t", "o", "m">> (* "atom" *)} :
        \E p \in 1..Len(name) :
            /\ p + Len(k) - 1 <= Len(name)
            /\ \A j \in 1..Len(k) : LowerChar(name[p + j - 1]) = k[j]

\* C2: every processor text that contains "celeron", "pentium" or "atom" in
\* any letter case is blocked by the CPU policy, with a non-empty reason,
\* whatever else the text contains.
C2_ExcluidosBloquean ==
    (RetornoDe("cpu_excluido_politica") /\ NombraExcluido(arg))
        => (ret.veredicto.bloqueado /\ ret.veredicto.motivo # "")

\* a disallowed family in upper or mixed case, next to a Core i3 of the
\* 11th generation, was blocked
C2_Witness ==
    /\ RetornoDe("cpu_excluido_politica")
    /\ arg \in {<<"P", "E", "N", "T", "I", "U", "M">> (* "PENTIUM" *) \o <<"-", "1", "1", "1", "5", "G", "4">> (* "-1115G4" *), <<"C", "o", "r", "e", " ", "i", "3">> (* "Core i3" *) \o F_Celeron, F_Atom \o F_core_i5}
    /\ ret.veredicto.bloqueado

\* the text names the Core i3 family
NombraCoreI3(name) == Contains(Lower(name), <<"c", "o", "r", "e", " ", "i", "3">> (* "core i3" *))

\* no digit of the text other than the 3 of "i3": nothing tells a generation
SinGeneracion(name) ==
    \A i \in 1..Len(name) :
        IsDigit(name[i]) => (name[i] = "3" /\ i > 1 /\ LowerChar(name[i - 1]) = "i")

\* C3: a text that names Core i3 and from which no generation can be
\* determined (the bare "Core i3") is blocked by the CPU gate, with a
\* non-empty reason.
C3_I3SinGeneracionBloquea ==
    (RetornoDe("cpu_excluido_politica") /\ NombraCoreI3(arg) /\ SinGeneracion(arg)
        /\ ~NombraExcluido(arg))
        => (ret.veredicto.bloqueado /\ ret.veredicto.motivo # "")

\* the generation an Intel model number "-<digits>" written right after
\* "core i3" denotes (8 for -8130U, 10 for -10110U, 11 for -1115G4), or 0
GeneracionDeModelo(name) ==
    LET s == Lower(name)
        ps == {p \in 1..Len(s) :
                 /\ HasAt(s, p, <<"c", "o", "r", "e", " ", "i", "3">> (* "core i3" *))
                 /\ p + 9 <= Len(s)
                 /\ s[p + 7] = "-" /\ IsDigit(s[p + 8]) /\ IsDigit(s[p + 9])}
    IN  IF ps = {} THEN 0
        ELSE LET p == CHOOSE q \in ps : \A o \in ps : q <= o
             IN  IF s[p + 8] = "1" THEN 10 + DigitVal(s[p + 9]) ELSE DigitVal(s[p + 8])

\* C4: for a Core i3 text whose model number denotes a generation, the CPU
\* gate blocks exactly when that generation is below 10.
C4_I3SigueGeneracion ==
    (RetornoDe("cpu_excluido_politica") /\ GeneracionDeModelo(arg) # 0
        /\ ~NombraExcluido(arg))
        => (ret.veredicto.bloqueado <=> GeneracionDeModelo(arg) < MIN_GEN_I3)

(***************************************************************************)
(* C5: the storage policy                                                  *)
(***************************************************************************)
\* the flags the storage policy takes as false: 0, False, "0" and an absent
\* value (None or the empty text)
SsdFalso == {ValInt(0), ValBool(FALSE), ValStr(<<"0">>), ValNone, ValStr(<<>>)}

\* C5: the storage policy blocks exactly the flags that normalize to false,
\* blocks with a non-empty reason, and passes with an empty reason.
C5_DiscoBloqueaSiiFalso ==
    RetornoDe("disco_excluido_politica")
        => /\ ret.bloqueado <=> arg \in SsdFalso
           /\ ret.bloqueado => ret.motivo # ""
           /\ ~ret.bloqueado => ret.motivo = ""

\* the text "0" was blocked
C5_Witness ==
    /\ RetornoDe("disco_excluido_politica")
    /\ arg = ValStr(<<"0">>)
    /\ ret.bloqueado

(***************************************************************************)
(* C10: the damage factor                                                  *)
(***************************************************************************)
\* the defect kinds flagged in a result of inferir_danios
Marcados(d) == {k \in DOMAIN d.danios_detectados : d.danios_detectados[k] = 1}

\* the product of the multipliers of a set of defect kinds
RECURSIVE Producto(_)
Producto(S) ==
    IF S = {} THEN Ent(1)
    ELSE LET k == CHOOSE x \in S : TRUE
         IN  Mul(factors(k), Producto(S \ {k}))

\* C10: the damage factor is max(0.50, product of the multipliers of the
\* flagged defect kinds); it lies in [0.50, 1.00] and is 1.00 exactly when no
\* defect kind is flagged.
C10_FactorDanio ==
    RetornoDe("inferir_danios")
        => LET p == Producto(Marcados(ret))
               f == ret.factor_danio
           IN  /\ f = IF Lt(p, Fin(1, 2)) THEN Fin(1, 2) ELSE p
               /\ ~Lt(f, Fin(1, 2))
               /\ ~Gt(f, Ent(1))
               /\ f = Ent(1) <=> Marcados(ret) = {}

\* three defect kinds were flagged and the floor of 0.50 replaced their product
C10_Witness ==
    /\ RetornoDe("inferir_danios")
    /\ Cardinality(Marcados(ret)) >= 3
    /\ Lt(Producto(Marcados(ret)), Fin(1, 2))
    /\ ret.factor_danio = Fin(1, 2)

\* two defect kinds were flagged and the factor is their product
C10_WitnessProducto ==
    /\ RetornoDe("inferir_danios")
    /\ Marcados(ret) = {"pantalla_quebrada", "rayones"}
    /\ ret.factor_danio = Fin(54, 100)

(***************************************************************************)
(* C1, C6: the decision of /avaluo                                         *)
(***************************************************************************)
\* the handler answered with a decision (not with an error)
Decidido == pc = "fin" /\ respuesta.ok

CpuBloquea == cpu_excluido_politica(solicitud.procesador).bloqueado
DiscoBloquea == disco_excluido_politica(solicitud.es_ssd).bloqueado
\* price_pre_floor is below the floor
PisoBloquea ==
    Lt(resultado.detalle.precio_mercado_sin_minimo, Ent(MIN_PRESTAMO))

\* C1: the decision is blocked exactly when the CPU policy, the storage
\* policy or the economic floor block fires; the floor block fires whenever
\* price_pre_floor = price_post_damage x market_factor is below the floor,
\* whatever the policies say, and the final price is then the floor.
C1_BloqueadoSiiAlgunaCompuerta ==
    Decidido
        => /\ respuesta.bloqueado_por_minimo <=> (CpuBloquea \/ DiscoBloquea \/ PisoBloquea)
           /\ resultado.detalle.precio_mercado_sin_minimo =
                  Mul(resultado.detalle.precio_post_danio,
                      resultado.detalle.factor_compraventa)
           /\ PisoBloquea => respuesta.precio_predicho = Ent(MIN_PRESTAMO)

\* scenario D: base price 100,000, no damage, factor 0.44: only the floor
\* block fires, the price before the floor is 44,000 and the final price
\* 100,000
C1_Witness ==
    /\ Decidido
    /\ ~CpuBloquea /\ ~DiscoBloquea /\ PisoBloquea
    /\ resultado.detalle.precio_base_ml = Ent(100000)
    /\ resultado.detalle.precio_mercado_sin_minimo = Ent(44000)
    /\ respuesta.precio_predicho = Ent(100000)
    /\ respuesta.bloqueado_por_minimo

\* the text between the two fixed parts of an offer message, or <<>>
MontoEnMensaje(m) ==
    LET a == Len(MENSAJE_AVALUO)
        c == Len(MENSAJE_CONTINUAR)
    IN  IF Len(m) > a + c
           /\ SubSeq(m, 1, a) = MENSAJE_AVALUO
           /\ SubSeq(m, Len(m) - c + 1, Len(m)) = MENSAJE_CONTINUAR
        THEN SubSeq(m, a + 1, Len(m) - c)
        ELSE <<>>

\* the number a text of digits and commas writes
SinComas(t) == SelectSeq(t, LAMBDA ch : ch # ",")
EsMonto(t) == Len(SinComas(t)) > 0 /\ \A i \in 1..Len(t) : IsDigit(t[i]) \/ t[i] = ","

\* the integer n is a nearest integer of the number a
EsRedondeoDe(n, a) == 2 * Abs(n * a.d - a.n) <= a.d

\* C6: every blocked decision carries the same fixed decline sentence,
\* whichever gates fired; a decision that is not blocked carries the final
\* price rounded to an integer and the continuation prompt.
C6_MensajeCliente ==
    Decidido
        => /\ (CpuBloquea \/ DiscoBloquea \/ PisoBloquea)
                  => respuesta.mensaje_cliente = MENSAJE_RECHAZO
           /\ ~(CpuBloquea \/ DiscoBloquea \/ PisoBloquea)
                  => LET t == MontoEnMensaje(respuesta.mensaje_cliente)
                     IN  /\ EsMonto(t)
                         /\ EsRedondeoDe(DigitsValue(SinComas(t), 0), respuesta.precio_predicho)

\* the decline sentence after the storage gate alone fired, with a price
\* above the floor (scenario C)
C6_Witness ==
    /\ Decidido
    /\ DiscoBloquea /\ ~CpuBloquea /\ ~PisoBloquea
    /\ respuesta.precio_predicho = Ent(880000)
    /\ respuesta.mensaje_cliente = MENSAJE_RECHAZO

\* scenario A: the offer of 880,000 with the continuation prompt
C6_WitnessOferta ==
    /\ Decidido
    /\ ~respuesta.bloqueado_por_minimo
    /\ respuesta.precio_predicho = Ent(880000)
    /\ MontoEnMensaje(respuesta.mensaje_cliente) = <<"8", "8", "0", ",", "0", "0", "0">>

(***************************************************************************)
(* C7-C9: the price composition                                            *)
(***************************************************************************)
\* predecir_precio_con_imagenes returned for a price of the predictor
PrecioCompuesto == RetornoDe("predecir_precio_con_imagenes") /\ arg.base # None

\* the override if given, else the configured factor
FactorSinObjetivo ==
    IF arg.factor_mercado # None THEN arg.factor_mercado ELSE FACTOR_COMPRAVENTA

\* C7: the final price is max(floor, base_price x damage_factor x
\* market_factor), so it is never below the floor when the predictor
\* returned a price.
C7_PrecioFinal ==
    PrecioCompuesto
        => LET d == ret.detalle
               pre == Mul(Mul(arg.base, d.factor_danio), d.factor_compraventa)
               piso == Ent(MIN_PRESTAMO)
           IN  /\ ~Lt(ret.precio_predicho, piso)
               /\ IsFin(d.factor_compraventa)
                      => ret.precio_predicho = IF Lt(pre, piso) THEN piso ELSE pre

\* scenario B: base price 2,000,000 with a cracked screen (0.60) and the
\* factor 0.44: 1,200,000 after damage and 528,000 in the end
C7_Witness ==
    /\ PrecioCompuesto
    /\ arg.base = Ent(2000000)
    /\ ret.detalle.factor_danio = Fin(60, 100)
    /\ ret.detalle.precio_post_danio = Ent(1200000)
    /\ ret.detalle.factor_compraventa = Fin(44, 100)
    /\ ret.precio_predicho = Ent(528000)

\* C8 as stated: with a target and price_post_damage > 0 the market factor
\* is target / price_post_damage, before the override and the default; the
\* override is used only without a target, the default only without both.
C8_Original ==
    PrecioCompuesto
        => LET post == ret.detalle.precio_post_danio
               factor == ret.detalle.factor_compraventa
           IN  /\ (arg.objetivo_precio # None /\ Gt(post, Ent(0)))
                      => factor = Div(arg.objetivo_precio, post, arg.numpy)
               /\ arg.objetivo_precio = None => factor = FactorSinObjetivo

\* C8 (amended): with a target above 0 and price_post_damage > 0 the market
\* factor is target / price_post_damage, before the override and the
\* default; without a target, or with a target that is not above 0, it is
\* the override if given and else the default.
C8_FactorObjetivo ==
    PrecioCompuesto
        => LET post == ret.detalle.precio_post_danio
               factor == ret.detalle.factor_compraventa
               obj == arg.objetivo_precio
           IN  /\ (obj # None /\ Gt(obj, Ent(0)) /\ Gt(post, Ent(0)))
                      => factor = Div(obj, post, arg.numpy)
               /\ (obj = None \/ (~Gt(obj, Ent(0)) /\ Gt(post, Ent(0))))
                      => factor = FactorSinObjetivo

\* target inversion: base price 1,000,000, no damage, target 440,000 and an
\* override of 0.5: the factor is 0.44 and the final price 440,000
C8_Witness ==
    /\ PrecioCompuesto
    /\ arg.base = Ent(1000000)
    /\ arg.objetivo_precio = Ent(440000)
    /\ arg.factor_mercado = Fin(1, 2)
    /\ ret.detalle.factor_danio = Ent(1)
    /\ ret.detalle.factor_compraventa = Fin(44, 100)
    /\ ret.precio_predicho = Ent(440000)

\* C9: with price_post_damage = 0 and a target, target solving is skipped:
\* the market factor is the override if given and else the default, and the
\* final price is the floor.
C9_ObjetivoConPrecioCero ==
    (PrecioCompuesto /\ ret.detalle.precio_post_danio = Ent(0)
        /\ arg.objetivo_precio # None)
        => /\ ret.detalle.factor_compraventa = FactorSinObjetivo
           /\ ret.precio_predicho = Ent(MIN_PRESTAMO)

(***************************************************************************)
(* C11-C13, C19: advisories and failures of /avaluo                        *)
(***************************************************************************)
\* the advisories that are not the reason of the economic floor
AdvertenciasNoEconomicas ==
    {MOTIVO_CPU_EXCLUIDO, MOTIVO_I3_SIN_GEN, MOTIVO_I3_ANTERIOR, MOTIVO_DISCO,
     ADV_CPU_NO_COMUN, ADV_MARCA_NO_RECONOCIDA}

\* the text a is one of the advisories of the response
Advierte(a) == \E i \in 1..Len(respuesta.advertencias) : respuesta.advertencias[i] = a

\* some advisory of the response is a reason of the economic floor
AdvierteEconomico ==
    \E i \in 1..Len(respuesta.advertencias) :
        respuesta.advertencias[i] \notin AdvertenciasNoEconomicas

\* C11: whenever a gate fires in a decision, the advisories contain that
\* gate's reason (CPU policy, storage policy, economic floor), so a blocked
\* decision carries at least one reason.
C11_MotivoDeCadaCompuerta ==
    Decidido
        => /\ CpuBloquea => Advierte(cpu_excluido_politica(solicitud.procesador).motivo)
           /\ DiscoBloquea => Advierte(disco_excluido_politica(solicitud.es_ssd).motivo)
           /\ PisoBloquea => AdvierteEconomico
           /\ respuesta.bloqueado_por_minimo => Len(respuesta.advertencias) >= 1

\* C11, the part the code keeps: the reasons of the two policy gates are in
\* the advisories whenever those gates fire.
C11_MotivosDePolitica ==
    Decidido
        => /\ CpuBloquea => Advierte(cpu_excluido_politica(solicitud.procesador).motivo)
           /\ DiscoBloquea => Advierte(disco_excluido_politica(solicitud.es_ssd).motivo)

\* the response is a decision: a numeric offer or the decline sentence
EsDecision ==
    /\ respuesta.status = 200
    /\ respuesta.ok
    /\ respuesta.precio_predicho # None
    /\ \/ respuesta.bloqueado_por_minimo /\ respuesta.mensaje_cliente = MENSAJE_RECHAZO
       \/ ~respuesta.bloqueado_por_minimo /\ EsMonto(MontoEnMensaje(respuesta.mensaje_cliente))

\* C12: when the vision collaborator fails (the client cannot be built or
\* the analysis of an image raises) the request still ends in a decision,
\* an offer or a decline, and not in an error.
C12_DecisionSinVision ==
    (pc = "fin" /\ resultado = Raised) => EsDecision

\* C13: when the predictor gives no price (it answers None without raising)
\* the request ends in a well-formed decision that carries a diagnostic
\* advisory.
C13_DecisionSinPrediccion ==
    (pc = "fin" /\ resultado # Raised /\ resultado.precio_predicho = None)
        => /\ respuesta.status = 200
           /\ respuesta.ok
           /\ Len(respuesta.advertencias) >= 1

(***************************************************************************)
(* Two requests to /avaluo served at the same time.  Each runs the handler *)
(* at its own pace; what they share is the disk, where every request keeps *)
(* its images in a temporary directory until it has answered.  An image is *)
(* identified by what the vision service recognizes in it.                 *)
(***************************************************************************)
Solicitudes == {"a", "b"}

\* the directory names tempfile.mkdtemp(prefix="avaluo_") can give
Nombres == {"avaluo_x", "avaluo_y"}

DirAusente == [existe |-> FALSE, imagenes |-> <<>>]

\* mkdtemp in one fixed directory that may exist already
MkDtemp_fijo(fs) == {"avaluo_x"}

\* tempfile.mkdtemp: a directory that did not exist
MkDtemp(fs) == {d \in Nombres : ~fs[d].existe}

\* the images a request can carry: a clean one, one with a cracked screen
ImagenesConcurrentes ==
    {[tags |-> <<>>, objects |-> <<>>, ocr_lines |-> <<>>],
     [tags |-> <<>>, objects |-> <<>>, ocr_lines |-> <<L_cracked_screen>>]}

\* arg is what the predictor answers to each request
InitConcurrente ==
    /\ pc = [r \in Solicitudes |-> "inicio"]
    /\ solicitud = [r \in Solicitudes |-> SinSolicitud]
    /\ resultado = [r \in Solicitudes |-> None]
    /\ respuesta = [r \in Solicitudes |-> None]
    /\ fn = "avaluo"
    /\ arg \in [Solicitudes -> {[valor |-> Ent(v), numpy |-> TRUE] : v \in {100000, 2000000}}]
    /\ ret = None
    /\ archivos = [d \in Nombres |-> DirAusente]
    /\ tmpdir = [r \in Solicitudes |-> ""]
    /\ previas = [r \in Solicitudes |-> {}]

\* lines 167-185: the request arrives and gets its temporary directory
RecibirConcurrente(r) ==
    /\ pc[r] = "inicio"
    /\ \E p \in {P_Core_i5_1135G7, <<"C", "e", "l", "e", "r", "o", "n", " ", "N", "4", "0", "2", "0">> (* "Celeron N4020" *)}, im \in ImagenesConcurrentes,
          d \in MkDtemp(archivos) :
           /\ solicitud' = [solicitud EXCEPT ![r] =
                               [procesador |-> p, es_ssd |-> ValInt(1),
                                marca_modelo |-> <<>>, factor_mercado |-> None,
                                objetivo_precio |-> None, imagenes |-> im]]
           /\ tmpdir' = [tmpdir EXCEPT ![r] = d]
           /\ archivos' = [archivos EXCEPT ![d] = [existe |-> TRUE, imagenes |-> <<>>]]
    /\ previas' = [previas EXCEPT ![r] = {q \in Solicitudes : pc[q] = "fin"}]
    /\ pc' = [pc EXCEPT ![r] = "guardar"]
    /\ UNCHANGED <<resultado, respuesta, fn, arg, ret>>

\* lines 193-201: the image is written to img_0 of the directory; open()
\* raises when the directory is not there, which line 334 catches
GuardarConcurrente(r) ==
    /\ pc[r] = "guardar"
    /\ IF archivos[tmpdir[r]].existe
       THEN /\ archivos' = [archivos EXCEPT ![tmpdir[r]].imagenes = <<solicitud[r].imagenes>>]
            /\ pc' = [pc EXCEPT ![r] = "integracion"]
            /\ UNCHANGED resultado
       ELSE /\ resultado' = [resultado EXCEPT ![r] = Raised]
            /\ pc' = [pc EXCEPT ![r] = "decision"]
            /\ UNCHANGED archivos
    /\ UNCHANGED <<solicitud, respuesta, fn, arg, ret, tmpdir, previas>>

\* lines 235-255: predecir_precio_con_imagenes on the files of the
\* directory; the analysis raises when the file is not there
IntegrarConcurrente(r) ==
    /\ pc[r] = "integracion"
    /\ LET dir == archivos[tmpdir[r]]
       IN  IF ~dir.existe \/ dir.imagenes = <<>>
           THEN resultado' = [resultado EXCEPT ![r] = Raised]
           ELSE \E danios \in {inferir_danios(dir.imagenes[1].tags,
                                              dir.imagenes[1].objects,
                                              dir.imagenes[1].ocr_lines)} :
                    resultado' = [resultado EXCEPT ![r] =
                        ComponerPrecio(arg[r].valor, arg[r].numpy, danios,
                                       solicitud[r].factor_mercado,
                                       solicitud[r].objetivo_precio)]
    /\ pc' = [pc EXCEPT ![r] = "decision"]
    /\ UNCHANGED <<solicitud, respuesta, fn, arg, ret, archivos, tmpdir, previas>>

\* the handler answers and removes every temporary directory
ResponderConcurrente_limpia_todo(r) ==
    /\ pc[r] = "decision"
    /\ respuesta' = [respuesta EXCEPT ![r] =
                        IF resultado[r] = Raised THEN Respuesta500(ERROR_EXCEPCION)
                        ELSE Decidir(solicitud[r], resultado[r])]
    /\ archivos' = [d \in Nombres |-> DirAusente]
    /\ pc' = [pc EXCEPT ![r] = "fin"]
    /\ UNCHANGED <<solicitud, resultado, fn, arg, ret, tmpdir, previas>>

\* the handler answers and leaves its temporary directory on the disk
ResponderConcurrente_sin_limpiar(r) ==
    /\ pc[r] = "decision"
    /\ respuesta' = [respuesta EXCEPT ![r] =
                        IF resultado[r] = Raised THEN Respuesta500(ERROR_EXCEPCION)
                        ELSE Decidir(solicitud[r], resultado[r])]
    /\ pc' = [pc EXCEPT ![r] = "fin"]
    /\ UNCHANGED <<solicitud, resultado, fn, arg, ret, archivos, tmpdir, previas>>

\* lines 257-354: the handler answers and removes its directory
ResponderConcurrente(r) ==
    /\ pc[r] = "decision"
    /\ respuesta' = [respuesta EXCEPT ![r] =
                        IF resultado[r] = Raised THEN Respuesta500(ERROR_EXCEPCION)
                        ELSE Decidir(solicitud[r], resultado[r])]
    /\ archivos' = [archivos EXCEPT ![tmpdir[r]] = DirAusente]
    /\ pc' = [pc EXCEPT ![r] = "fin"]
    /\ UNCHANGED <<solicitud, resultado, fn, arg, ret, tmpdir, previas>>

NextConcurrente ==
    \E r \in Solicitudes :
        \/ RecibirConcurrente(r)
        \/ GuardarConcurrente(r)
        \/ IntegrarConcurrente(r)
        \/ ResponderConcurrente(r)

SpecConcurrente == InitConcurrente /\ [][NextConcurrente]_vars

(***************************************************************************)
(* C14, C15: determinism and independence of the requests                  *)
(***************************************************************************)
\* the decision of request r were it served alone
DecisionSola(r) ==
    LET im == solicitud[r].imagenes
        danios == inferir_danios(im.tags, im.objects, im.ocr_lines)
    IN  Decidir(solicitud[r],
                ComponerPrecio(arg[r].valor, arg[r].numpy, danios,
                               solicitud[r].factor_mercado,
                               solicitud[r].objetivo_precio))

\* C14: two evaluations with the same fields, the same images and the same
\* answer of the predictor give the same decision, whatever was evaluated
\* before them.
C14_Determinista ==
    \A r \in Solicitudes, q \in Solicitudes :
        (pc[r] = "fin" /\ pc[q] = "fin"
            /\ solicitud[r] = solicitud[q] /\ arg[r] = arg[q])
            => respuesta[r] = respuesta[q]

\* request b, served after a had been answered, repeats a's inputs and gets
\* a's decision
C14_Witness ==
    /\ pc["a"] = "fin" /\ pc["b"] = "fin"
    /\ previas["b"] = {"a"}
    /\ solicitud["a"] = solicitud["b"] /\ arg["a"] = arg["b"]
    /\ solicitud["b"].imagenes.ocr_lines = <<L_cracked_screen>>
    /\ respuesta["b"].ok
    /\ respuesta["b"] = respuesta["a"]

\* C15: under every interleaving of two requests, each one reads only its
\* own images and answers the decision it would answer alone.
C15_SinInterferencia ==
    \A r \in Solicitudes :
        /\ pc[r] = "integracion"
               => archivos[tmpdir[r]].imagenes = <<solicitud[r].imagenes>>
        /\ pc[r] = "fin" => respuesta[r] = DecisionSola(r)

\* the two requests overlapped (neither had been answered when the other
\* arrived), differ in their images and got each its own decision
C15_Witness ==
    /\ pc["a"] = "fin" /\ pc["b"] = "fin"
    /\ previas["a"] = {} /\ previas["b"] = {}
    /\ solicitud["a"].imagenes # solicitud["b"].imagenes
    /\ arg["a"] = arg["b"] /\ arg["a"].valor = Ent(2000000)
    /\ solicitud["a"].procesador = solicitud["b"].procesador
    /\ respuesta["a"] = DecisionSola("a") /\ respuesta["b"] = DecisionSola("b")
    /\ respuesta["a"].ok /\ respuesta["b"].ok
    /\ respuesta["a"].precio_predicho # respuesta["b"].precio_predicho

(***************************************************************************)
(* The requests when saving the images, the vision service or the          *)
(* predictor can fail                                                      *)
(***************************************************************************)
\* lines 193-201: img.read(), open() or f.write() raises, with the file
\* created or not; line 334 catches it
FallarGuardado(r) ==
    /\ pc[r] = "guardar"
    /\ \E escrito \in {<<>>, <<solicitud[r].imagenes>>} :
           archivos' = [archivos EXCEPT ![tmpdir[r]].imagenes = escrito]
    /\ resultado' = [resultado EXCEPT ![r] = Raised]
    /\ pc' = [pc EXCEPT ![r] = "decision"]
    /\ UNCHANGED <<solicitud, respuesta, fn, arg, ret, tmpdir, previas>>

\* lines 235-255: predecir_precio_con_imagenes raises (the vision client or
\* the model file fails), or returns a price that is not a number
FallarIntegracion(r) ==
    /\ pc[r] = "integracion"
    /\ \E danios \in {inferir_danios(<<>>, <<>>, <<>>)} :
           \E res \in {Raised,
                       ComponerPrecio(None, TRUE, danios,
                                      solicitud[r].factor_mercado,
                                      solicitud[r].objetivo_precio)} :
               resultado' = [resultado EXCEPT ![r] = res]
    /\ pc' = [pc EXCEPT ![r] = "decision"]
    /\ UNCHANGED <<solicitud, respuesta, fn, arg, ret, archivos, tmpdir, previas>>

NextLimpieza ==
    \/ NextConcurrente
    \/ \E r \in Solicitudes : FallarGuardado(r) \/ FallarIntegracion(r)

SpecLimpieza == InitConcurrente /\ [][NextLimpieza]_vars

(***************************************************************************)
(* C30: the temporary directory of a request                               *)
(***************************************************************************)
\* the step in which the handler of request r returns
Retorna(r) == pc[r] = "decision" /\ pc'[r] = "fin"

C30_SinDirectoriosHuerfanos ==
    \A d \in Nombres :
        archivos[d].existe
            => \E r \in Solicitudes :
                   tmpdir[r] = d /\ pc[r] \in {"guardar", "integracion", "decision"}

C30_WitnessExito ==
    /\ pc["a"] = "fin" /\ respuesta["a"].status = 200 /\ respuesta["a"].ok
    /\ ~archivos[tmpdir["a"]].existe
    /\ pc["b"] = "decision" /\ resultado["b"] = Raised
    /\ archivos[tmpdir["b"]].existe
    /\ archivos[tmpdir["b"]].imagenes # <<>>

(***************************************************************************)
(* C16, C17: precedence of the user's values and the brand score           *)
(***************************************************************************)
ConEvidencia == {"capacidad_disco_gb", "ram_gb", "generacion_procesador"}

Defecto == [capacidad_disco_gb |-> Ent(256), ram_gb |-> Ent(8),
            generacion_procesador |-> Ent(10)]

HayRasgos == pc = "retorno" /\ fn = "construir_features_desde_vision"

\* C16: for storage size, RAM and CPU generation the feature is the user's
\* value whenever the user supplied one, the value extracted from the
\* evidence only when the user supplied none, and the default (256, 8, 10)
\* only when both are absent.
C16_PrecedenciaUsuario ==
    HayRasgos =>
        \A k \in ConEvidencia :
            LET usuario == arg.entrada[k]
                indicio == extraer_indicios(arg.vision.ocr_lines)[k]
            IN  /\ usuario # None => ret[k] = usuario
                /\ usuario = None /\ indicio # None => ret[k] = indicio
                /\ usuario = None /\ indicio = None => ret[k] = Defecto[k]

\* C16, the part the code keeps: a value the user supplied and that is not
\* zero is the feature, whatever the evidence holds.
C16_UsuarioNoCero ==
    HayRasgos =>
        \A k \in ConEvidencia :
            arg.entrada[k] # None /\ arg.entrada[k].n # 0 => ret[k] = arg.entrada[k]

\* C17: the brand score of the feature vector is never absent and is an
\* integer between 1 and 9.
C17_MarcaScore ==
    pc = "retorno" /\ fn \in {"construir_features_desde_vision", "avaluo"} =>
        /\ ret.marca_score # None
        /\ ret.marca_score.t = "fin" /\ ret.marca_score.d = 1
        /\ ret.marca_score.n \in 1..9

\* C17, the part the code keeps: a brand score the caller supplied and that
\* is not zero is the feature.
C17_MarcaScoreDelUsuario ==
    HayRasgos /\ arg.entrada.marca_score # None /\ arg.entrada.marca_score.n # 0 =>
        ret.marca_score = arg.entrada.marca_score

(***************************************************************************)
(* C18: the processor normalizers                                          *)
(***************************************************************************)
\* the entries of CPU_SCORES whose keywords all occur in the lowered text
FamiliasEn(s) ==
    {i \in 1..Len(CPU_SCORES) : \A k \in CPU_SCORES[i].keys : Contains(s, k)}

\* C18: for every processor text _infer_cpu_score returns an integer from 1
\* to 9 and _infer_generation an integer from 0 to 20; a text naming no
\* family scores 4, a text with no Core or Ryzen marker has generation 10,
\* and among several families named the first of the fixed order decides.
C18_NormalizadoresTotales ==
    RetornoDe("cpu_excluido_politica") =>
        LET s == Lower(arg)
            familias == FamiliasEn(s)
        IN  /\ ret.score \in 1..9
            /\ ret.gen \in 0..20
            /\ familias = {} => ret.score = 4
            /\ /\ ~Contains(s, <<"c", "o", "r", "e">>)
               /\ ~Contains(s, <<"r", "y", "z", "e", "n">>)
               => ret.gen = GEN_DEFAULT
            /\ \A i \in familias :
                   (\A j \in familias : i <= j) => ret.score = CPU_SCORES[i].score

\* a text naming Celeron (2) before Core i5 (6) scores 2, and a text naming
\* nothing known gets both defaults
C18_Witness ==
    /\ RetornoDe("cpu_excluido_politica")
    /\ arg = F_Celeron \o F_core_i5
    /\ ret.score = 2 /\ ret.gen = GEN_DEFAULT

C18_WitnessDefecto ==
    /\ RetornoDe("cpu_excluido_politica")
    /\ arg = F_Atom
    /\ ret.score = 4 /\ ret.gen = GEN_DEFAULT

(***************************************************************************)
(* C19: order of the advisories                                            *)
(***************************************************************************)
\* place of an advisory in the order CPU reason, storage reason, economic
\* reason, other advisories
Rango(a) ==
    IF a \in {MOTIVO_CPU_EXCLUIDO, MOTIVO_I3_SIN_GEN, MOTIVO_I3_ANTERIOR} THEN 1
    ELSE IF a = MOTIVO_DISCO THEN 2
    ELSE IF a \in {ADV_CPU_NO_COMUN, ADV_MARCA_NO_RECONOCIDA} THEN 4
    ELSE 3

\* C19: in every decision the advisories are ordered CPU reason, storage
\* reason, economic reason and then every other advisory (unrecognized
\* processor family, unrecognized brand text).
C19_OrdenDeAdvertencias ==
    Decidido =>
        \A i, j \in 1..Len(respuesta.advertencias) :
            i < j => Rango(respuesta.advertencias[i]) <= Rango(respuesta.advertencias[j])

\* C19, the part the code keeps: the CPU reason comes before the storage
\* reason and the advisory on the brand text is last.
C19_OrdenSinFamilia ==
    Decidido =>
        \A i, j \in 1..Len(respuesta.advertencias) :
            /\ i < j
            /\ respuesta.advertencias[i] # ADV_CPU_NO_COMUN
            /\ respuesta.advertencias[j] # ADV_CPU_NO_COMUN
            => Rango(respuesta.advertencias[i]) < Rango(respuesta.advertencias[j])

(***************************************************************************)
(* C20: source of each evidence entry                                      *)
(***************************************************************************)
\* C20: the source of the evidence of each defect kind is "ocr" whenever
\* some synonym of the kind matches the recognized text, otherwise "tags"
\* whenever some synonym matches the tags, and "objects" only when no
\* synonym matches the text or the tags; an entry from "ocr" records a
\* sample line that contains the matched keyword.
C20_PrecedenciaDeOrigen ==
    RetornoDe("inferir_danios") =>
        \A i \in 1..Len(ret.evidencias) :
            LET e == ret.evidencias[i]
                enOcr == AnyWord(Join(arg.ocr_lines), keywords(e.tipo))
                enTags == AnyWord(Join(arg.tags), keywords(e.tipo))
            IN  /\ enOcr => e.origen = "ocr"
                /\ ~enOcr /\ enTags => e.origen = "tags"
                /\ e.origen = "objects" => ~enOcr /\ ~enTags
                /\ e.origen = "ocr" =>
                       e.muestra # SinMuestra /\ contains_word(e.muestra, e.keyword)

\* C20, the part the code keeps: the recognized text comes before tags and
\* objects, and an entry from "ocr" has its sample line.
C20_OcrPrimero ==
    RetornoDe("inferir_danios") =>
        \A i \in 1..Len(ret.evidencias) :
            LET e == ret.evidencias[i]
                enOcr == AnyWord(Join(arg.ocr_lines), keywords(e.tipo))
            IN  /\ enOcr <=> e.origen = "ocr"
                /\ e.origen = "ocr" =>
                       e.muestra # SinMuestra /\ contains_word(e.muestra, e.keyword)

(***************************************************************************)
(* C21-C24: the rules of inferir_danios                                    *)
(***************************************************************************)
\* The phrase n, from its j-th character on, lies in h at position i and
\* ends at a word boundary; a space of the phrase stands for one or more
\* spaces of h.
RECURSIVE FraseDesde(_, _, _, _)
FraseDesde(h, i, n, j) ==
    IF j > Len(n) THEN WordBoundary(h, i)
    ELSE IF n[j] = " "
    THEN /\ i <= Len(h)
         /\ IsSpace(h[i])
         /\ FraseDesde(h, i + 1, n, j) \/ FraseDesde(h, i + 1, n, j + 1)
    ELSE /\ i <= Len(h)
         /\ h[i] = n[j]
         /\ FraseDesde(h, i + 1, n, j + 1)

\* the phrase occurs in the text as whole words, letter case and accents
\* ignored
OcurreComoPalabras(text, frase) ==
    \E h \in {normalize(text)}, n \in {normalize(frase)} :
        \E i \in 1..(Len(h) + 1) : WordBoundary(h, i) /\ FraseDesde(h, i, n, 1)

\* some phrase of the sequence occurs in the text as whole words
OcurreAlguna(text, frases) ==
    \E i \in 1..Len(frases) : OcurreComoPalabras(text, frases[i])

\* the three sources of the call: recognized text, tags, objects
Fuentes == {Join(arg.ocr_lines), Join(arg.tags), Join(arg.objects)}

\* C21: carcasa_danada is flagged only if an explicit phrase ("carcasa
\* rota", "carcasa dañada") is in some source, or a damage keyword and a
\* case term both occur in the same source.
C21_CarcasaEnLaMismaFuente ==
    RetornoDe("inferir_danios") /\ ret.danios_detectados.carcasa_danada = 1 =>
        \E f \in Fuentes :
            \/ OcurreAlguna(f, carcasa_explicito)
            \/ OcurreAlguna(f, keywords("carcasa_danada")) /\ OcurreAlguna(f, carcasa_terms)

\* C21, the part the code keeps: carcasa_danada is flagged only if a damage
\* keyword is in some source and a case term is in some source.
C21_CarcasaEnAlgunaFuente ==
    RetornoDe("inferir_danios") /\ ret.danios_detectados.carcasa_danada = 1 =>
        /\ \E f \in Fuentes : OcurreAlguna(f, keywords("carcasa_danada"))
        /\ \E f \in Fuentes : OcurreAlguna(f, carcasa_terms)

\* the result holds nothing of the defect kind k: no motive and no evidence
SinRastro(k) ==
    /\ \A i \in 1..Len(ret.motivos) : ret.motivos[i] # Motivo(k)
    /\ \A i \in 1..Len(ret.evidencias) : ret.evidencias[i].tipo # k

C22_WitnessMarcada ==
    /\ RetornoDe("inferir_danios")
    /\ arg.ocr_lines = <<L_cracked_screen>> /\ arg.tags = <<>> /\ arg.objects = <<>>
    /\ Marcados(ret) = {"pantalla_quebrada"}
    /\ ret.factor_danio = Fin(60, 100)

\* C22, the price of the scenario: a base price of 2,000,000 with a cracked
\* screen alone gives 1,200,000 after damage and 528,000 at the end.
C22_EscenarioB ==
    /\ RetornoDe("predecir_precio_con_imagenes")
    /\ arg.base = Ent(2000000)
    /\ arg.ev = [tags |-> <<>>, objects |-> <<>>, ocr_lines |-> <<L_cracked_screen>>]
    /\ arg.factor_mercado = None /\ arg.objetivo_precio = None
    => /\ ret.detalle.precio_post_danio = Ent(1200000)
       /\ ret.precio_predicho = Ent(528000)

\* the defect kinds that have no co-occurrence rule
SinRegla == {"rayones", "bisagra_rota", "teclado_incompleto", "manchas"}

\* C23: every synonym, of one word or several, matches a text exactly when
\* it occurs there as whole words, letter case and accents ignored, the
\* words of a phrase separated by whitespace: a defect kind is flagged only
\* if one of its synonyms occurs so in some source, and a kind without a
\* co-occurrence rule (missing keys among them) is flagged whenever one does.
C23_PalabrasCompletas ==
    RetornoDe("inferir_danios") =>
        \A i \in 1..Len(CLAVES) :
            LET k == CLAVES[i]
                ocurre == \E f \in Fuentes : OcurreAlguna(f, keywords(k))
            IN  /\ ret.danios_detectados[k] = 1 => ocurre
                /\ k \in SinRegla /\ ocurre => ret.danios_detectados[k] = 1

\* C23, the part the code keeps: a synonym of one word matches a source
\* exactly when it occurs there as a whole word.
C23_UnaPalabra ==
    RetornoDe("inferir_danios") =>
        \A i \in 1..Len(CLAVES), f \in Fuentes :
            \A j \in 1..Len(keywords(CLAVES[i])) :
                LET kw == keywords(CLAVES[i])[j]
                IN  ~Contains(kw, <<" ">>) =>
                        (contains_word(f, kw) <=> OcurreComoPalabras(f, kw))

\* the elements of a list that are texts
RECURSIVE SoloTextos(_)
SoloTextos(l) ==
    IF Len(l) = 0 THEN <<>>
    ELSE IF Head(l) = NoEsTexto THEN SoloTextos(Tail(l))
    ELSE <<Head(l)>> \o SoloTextos(Tail(l))

\* some list of the call holds an element that is not a text
HayMalformado ==
    \E l \in {arg.tags, arg.objects, arg.ocr_lines} : \E i \in 1..Len(l) : l[i] = NoEsTexto

\* C24: a failure on one element of the sources does not stop the
\* evaluation: inferir_danios returns a result, and every defect kind that
\* the well-formed elements show is flagged in it.
C24_FallaAislada ==
    RetornoDe("inferir_danios") =>
        /\ ret # Raised
        /\ \A k \in Marcados(inferir_danios(SoloTextos(arg.tags), SoloTextos(arg.objects),
                                            SoloTextos(arg.ocr_lines))) :
               ret.danios_detectados[k] = 1

\* C24, the part the code keeps: with well-formed sources inferir_danios
\* returns a result in which every defect kind has its flag.
C24_SinMalformados ==
    RetornoDe("inferir_danios") /\ ~HayMalformado =>
        /\ ret # Raised
        /\ DOMAIN ret.danios_detectados = {CLAVES[i] : i \in 1..Len(CLAVES)}

(***************************************************************************)
(* C25, C26: sizes and generation read from the recognized text            *)
(***************************************************************************)
\* the numbers written in the text right before the token, spaces allowed
\* in between
TamanosCon(text, token) ==
    {DigitsValue(SubSeq(text, p, q), 0) :
        <<p, q>> \in {pq \in (1..Len(text)) \X (1..Len(text)) :
                        /\ pq[1] <= pq[2]
                        /\ \A j \in pq[1]..pq[2] : IsDigit(text[j])
                        /\ pq[1] = 1 \/ ~IsDigit(text[pq[1] - 1])
                        /\ HasAt(text, SkipSpaces(text, pq[2] + 1), token)}}

HayIndicios == RetornoDe("extraer_indicios_especificaciones")

\* C25: when the text gives the storage size as a number N before a
\* terabyte marker, the extracted size is N x 1024, whatever other sizes
\* the text holds; a number before a gigabyte storage marker is extracted
\* unchanged.
C25_Terabytes ==
    HayIndicios =>
        LET text == Lower(Join(arg))
            tb == TamanosCon(text, <<"t", "b">>)
            gb == TamanosCon(text, <<"g", "b", " ", "s", "s", "d">>)
                      \cup TamanosCon(text, <<"g", "b", " ", "h", "d", "d">>)
        IN  /\ tb # {} =>
                   /\ ret.capacidad_disco_gb # None
                   /\ ret.capacidad_disco_gb.n \in {n * 1024 : n \in tb}
            /\ tb = {} /\ gb # {} =>
                   /\ ret.capacidad_disco_gb # None
                   /\ ret.capacidad_disco_gb.n \in gb

\* C25, the part the code keeps: in a text with no gigabyte size the number
\* before the terabyte marker is multiplied by 1024, and a number before
\* "gb ssd" or "gb hdd" is extracted unchanged.
C25_SinOtrosTamanos ==
    HayIndicios =>
        LET text == Lower(Join(arg))
            tb == TamanosCon(text, <<"t", "b">>)
            gb == TamanosCon(text, <<"g", "b", " ", "s", "s", "d">>)
                      \cup TamanosCon(text, <<"g", "b", " ", "h", "d", "d">>)
        IN  /\ tb # {} /\ ~Contains(text, <<"g", "b">>) =>
                   ret.capacidad_disco_gb.n \in {n * 1024 : n \in tb}
            /\ gb # {} => ret.capacidad_disco_gb.n \in gb

\* the positions of the text where an Intel model i3/i5/i7/i9-<model> with
\* a model number of four digits or more starts
ModelosIntel(text) ==
    {p \in 1..Len(text) :
        /\ p + 6 <= Len(text)
        /\ text[p] = "i" /\ IsOdd3579(text[p + 1]) /\ text[p + 2] = "-"
        /\ \A j \in (p + 3)..(p + 6) : IsDigit(text[j])}

\* the generation a model number names: its first two digits when they lie
\* strictly between 1 and 20, else its first digit when that does
GeneracionNombrada(text, p) ==
    LET dos == DigitsValue(SubSeq(text, p + 3, p + 4), 0)
        uno == DigitVal(text[p + 3])
    IN  IF 1 < dos /\ dos < 20 THEN Ent(dos)
        ELSE IF 1 < uno /\ uno < 20 THEN Ent(uno)
        ELSE None

\* C26: for a text with an Intel model i3/i5/i7/i9-<model> the extracted
\* generation is the one given by the first one or two digits of the model
\* number when it lies strictly between 1 and 20 (11 for 11xx, 8 for 8xxx),
\* and absent otherwise.
C26_GeneracionDelModelo ==
    HayIndicios =>
        LET text == Lower(Join(arg))
            ps == ModelosIntel(text)
        IN  /\ ret # Raised
            /\ ps # {} => ret.generacion_procesador = GeneracionNombrada(text, Minimo(ps))

\* C26, the part the code keeps: the extracted generation is the first two
\* digits of the model number when they lie strictly between 1 and 20, and
\* absent otherwise.
C26_DosDigitos ==
    HayIndicios =>
        LET text == Lower(Join(arg))
            ps == ModelosIntel(text)
        IN  /\ ret # Raised
            /\ ps # {} =>
                   LET dos == DigitsValue(SubSeq(text, Minimo(ps) + 3, Minimo(ps) + 4), 0)
                   IN  ret.generacion_procesador =
                           IF 1 < dos /\ dos < 20 THEN Ent(dos) ELSE None

(***************************************************************************)
(* C27-C29: target price, entry points, breakdown                          *)
(***************************************************************************)
\* C27: with a target price and price_post_damage > 0, a target at or above
\* the floor is the final price and the floor does not block; a target
\* below the floor gives the floor as final price and the floor blocks.
C27_ObjetivoYPiso ==
    (Decidido /\ solicitud.objetivo_precio # None
        /\ Gt(resultado.detalle.precio_post_danio, Ent(0)))
        => LET obj == solicitud.objetivo_precio
               piso == Ent(MIN_PRESTAMO)
           IN  /\ ~Lt(obj, piso) =>
                      respuesta.precio_predicho = obj /\ ~PisoBloquea
               /\ Lt(obj, piso) =>
                      /\ respuesta.precio_predicho = piso
                      /\ PisoBloquea
                      /\ respuesta.bloqueado_por_minimo

\* C27, the part the code keeps: with a target, an offer that is not blocked
\* is never below the floor.
C27_OfertaNuncaBajoElPiso ==
    (Decidido /\ solicitud.objetivo_precio # None /\ ~respuesta.bloqueado_por_minimo)
        => ~Lt(respuesta.precio_predicho, Ent(MIN_PRESTAMO))

\* both entry points answered: the API with a decision, the client mode of
\* the command line with its text
AmbasEntradas == pc = "cli" /\ respuesta.ok /\ ret # Raised

\* C28: for the same fields, evidence and predictor answer the client mode
\* of the command line declines exactly when the API decision is blocked,
\* and otherwise both present the same final price.
C28_EntradasDeAcuerdo ==
    AmbasEntradas =>
        /\ ret.rechaza <=> respuesta.bloqueado_por_minimo
        /\ ~ret.rechaza /\ ~respuesta.bloqueado_por_minimo =>
               ret.monto = MontoEnMensaje(respuesta.mensaje_cliente)

\* C28, the part the code keeps: the client mode declines exactly when the
\* economic floor blocks, and when the API is not blocked both present the
\* same amount.
C28_DeAcuerdoEnElPiso ==
    AmbasEntradas =>
        /\ ret.rechaza <=> PisoBloquea
        /\ ~respuesta.bloqueado_por_minimo =>
               ~ret.rechaza /\ ret.monto = MontoEnMensaje(respuesta.mensaje_cliente)

\* C29: a decision with a numeric price reports in its breakdown the base
\* price the predictor gave, and price_post_damage is that base price times
\* the damage factor.
C29_PrecioBaseEnElDetalle ==
    Decidido /\ respuesta.precio_predicho # None =>
        /\ respuesta.detalle.precio_base_ml # None
        /\ respuesta.detalle.precio_base_ml = resultado.detalle.precio_base_ml
        /\ respuesta.detalle.precio_post_danio =
               Mul(respuesta.detalle.precio_base_ml, resultado.detalle.factor_danio)

\* C29, the part the code keeps: the price_post_damage of the response is
\* the predictor's answer times the damage factor.
C29_PrecioPostDanio ==
    Decidido /\ respuesta.precio_predicho # None =>
        respuesta.detalle.precio_post_danio =
            Mul(resultado.detalle.precio_base_ml, resultado.detalle.factor_danio)

====
